---- MODULE Spec2Model ----
\* teaspoon: pointer interaction for Bubble Tea elements.
\* Model of the Interactable record, the four capability handlers
\* (click.go, hover.go, drag.go, drop.go) and the two dispatchers
\* (HandleMouseMsg / HandleExternalEvent).
EXTENDS Integers, Sequences, FiniteSets, TLC

\* ---------------------------------------------------------------- bounds
MaxX == 1
MaxY == 0
NumElems == 2
MaxBacklog == 1
MaxInbox == 3
MaxAccepted == 2

\* ---------------------------------------------------------------- values
Elems == 1..NumElems

Point(x, y) == [X |-> x, Y |-> y]

MouseActions == {"Press", "Release", "Motion"}

MouseMsgs == [Action : MouseActions, X : 0..MaxX, Y : 0..MaxY]

NoMouse == [Action |-> "None", X |-> 0, Y |-> 0]

DragTypes == {"file", "folder"}

ClickKinds == {"Click", "DoubleClick", "RightClick"}
HoverKinds == {"MouseEnter", "MouseHover", "MouseLeave"}
DragKinds == {"DragStart", "DragMove", "DragEnd"}
DropKinds == {"DropEnter", "DropHover", "DropLeave", "DropRelease", "DropAccept", "DropDeny"}

\* The four semantic events.  A field the constructing code leaves out of the
\* composite literal holds Go's zero value.
ClickEvent(id, kind, mouseMsg) ==
    [cat |-> "click", ID |-> id, EventType |-> kind, MouseMsg |-> mouseMsg]

HoverEvent(id, kind, mouseMsg) ==
    [cat |-> "hover", ID |-> id, EventType |-> kind, MouseMsg |-> mouseMsg]

DragEvent(id, kind, dragType, origin, offset, mouseMsg) ==
    [cat |-> "drag", ID |-> id, EventType |-> kind, DragType |-> dragType,
     DragOrigin |-> origin, DragOffset |-> offset, MouseMsg |-> mouseMsg]

DropEvent(id, kind, acceptable, dragEvent) ==
    [cat |-> "drop", ID |-> id, EventType |-> kind, DropType |-> "",
     Acceptable |-> acceptable, DragEvent |-> dragEvent]

\* A handler object: set = the slot is bound (non-nil), on = the names of its
\* On... function fields that are non-nil, EmitMessages and, for the drop
\* handler, AcceptedDropTypes.
Handler(set, on, emit, accepted) ==
    [set |-> set, on |-> on, EmitMessages |-> emit, AcceptedDropTypes |-> accepted]

NilHandler == Handler(FALSE, {}, FALSE, <<>>)

\* The Interactable record.  LastClickTime, DoubleClickThreshold and ClickCount
\* are never read or written by any handler and are left out.
Interactable(id, click, hover, drag, drop, clickEv, hoverEv, dragEv, dropEv) ==
    [ID |-> id,
     IsSelected |-> FALSE, IsHovered |-> FALSE, IsDragging |-> FALSE,
     DragOrigin |-> Point(0, 0), DragOffset |-> Point(0, 0),
     IsValidDrop |-> FALSE, IsAboveDrop |-> FALSE, IsBelowDrop |-> FALSE,
     Click |-> click, Hover |-> hover, Drag |-> drag, Drop |-> drop,
     ClickEvent |-> clickEv, HoverEvent |-> hoverEv, DragEvent |-> dragEv,
     DropEvent |-> dropEv,
     IsInside |-> FALSE, LocalHandler |-> FALSE, ExternalHandler |-> FALSE]

\* The interaction flags and coordinates of a record, without its configuration.
Flags(r) ==
    [IsSelected |-> r.IsSelected, IsHovered |-> r.IsHovered, IsDragging |-> r.IsDragging,
     DragOrigin |-> r.DragOrigin, DragOffset |-> r.DragOffset,
     IsValidDrop |-> r.IsValidDrop, IsAboveDrop |-> r.IsAboveDrop,
     IsBelowDrop |-> r.IsBelowDrop]

\* ---------------------------------------------------------------- state
VARIABLES
    els,        \* els[e]: the Interactable record element e returns from GetInteraction()
    last,       \* the most recent handling pass: input, record before, handlers run, batch returned
    pending,    \* event producers (tea.Cmd closures) returned to the host and not yet invoked
    inbox       \* messages the host obtained from producers and has not redelivered

vars == <<els, last, pending, inbox>>

\* ---------------------------------------------------------------- handling pass
\* One synchronous handling pass threads a context:
\*   i     the receiver record of the dispatcher method
\*   x     the record element.GetInteraction() points to
\*   same  whether i and x are the same record (i == element.GetInteraction())
\*   cmd   the tea.Cmd returned by the handler that ran last (<<>> is nil,
\*         a longer sequence is a tea.Batch in order)
\*   cmds  the dispatcher's local cmds slice
\*   calls the handlers entered so far, each with the flags of x on entry
\*   panic a nil function value was called
Ctx(e, i, x, same) ==
    [elem |-> e, i |-> i, x |-> x, same |-> same, cmd |-> <<>>, cmds |-> <<>>,
     calls |-> <<>>, panic |-> FALSE]

\* interaction := element.GetInteraction(); interaction.f = v
SetX(c, f, v) ==
    [c EXCEPT !.x = [@ EXCEPT ![f] = v],
              !.i = IF c.same THEN [@ EXCEPT ![f] = v] ELSE @]

\* i.f = v   (a write through the dispatcher's receiver)
SetI(c, f, v) ==
    [c EXCEPT !.i = [@ EXCEPT ![f] = v],
              !.x = IF c.same THEN [@ EXCEPT ![f] = v] ELSE @]

Enter(c, name) == [c EXCEPT !.calls = Append(@, [h |-> name, at |-> Flags(c.x)])]

Return(c, cmd) == [c EXCEPT !.cmd = cmd]

\* if cmd != nil { cmds = append(cmds, cmd) }
Collect(c) == [c EXCEPT !.cmds = @ \o c.cmd]

\* An application-supplied On... function.  Its body is application code: it is
\* modelled as a hook that leaves the record alone and returns a nil command.
Custom(c, name) == Return(Enter(c, name), <<>>)

\* A producer is the closure a default handler returns.  It captured the
\* pointer `interaction` (owner: whose record), the message it was built for,
\* and reads ID, IsValidDrop, DragOrigin and DragOffset through the pointer
\* when the host invokes it.
Producer(cat, kind, owner, mouseMsg, dragEvent) ==
    [cat |-> cat, EventType |-> kind, owner |-> owner, MouseMsg |-> mouseMsg,
     DragEvent |-> dragEvent]

NoDrag == DragEvent(0, "None", "", Point(0, 0), Point(0, 0), NoMouse)

\* ---------------------------------------------------------------- hover.go
DefaultMouseEnter(c, h, mouseMsg) ==
    LET c1 == SetX(Enter(c, "DefaultMouseEnter"), "IsHovered", TRUE)
    IN  Return(c1, IF h.EmitMessages
                   THEN <<Producer("hover", "MouseEnter", c.elem, mouseMsg, NoDrag)>>
                   ELSE <<>>)

HandleMouseEnter(c, h, mouseMsg) ==
    LET c1 == Enter(c, "HandleMouseEnter")
    IN  IF "OnMouseEnter" \in h.on THEN Custom(c1, "OnMouseEnter")
        ELSE DefaultMouseEnter(c1, h, mouseMsg)

\* variant: the repeat hover handler forgets to return its producer
DefaultMouseHover_NoEmit(c, h, mouseMsg) ==
    Return(SetX(Enter(c, "DefaultMouseHover"), "IsHovered", TRUE), <<>>)

DefaultMouseHover(c, h, mouseMsg) ==
    LET c1 == SetX(Enter(c, "DefaultMouseHover"), "IsHovered", TRUE)
    IN  Return(c1, IF h.EmitMessages
                   THEN <<Producer("hover", "MouseHover", c.elem, mouseMsg, NoDrag)>>
                   ELSE <<>>)

HandleMouseHover(c, h, mouseMsg) ==
    LET c1 == Enter(c, "HandleMouseHover")
    IN  IF "OnMouseHover" \in h.on THEN Custom(c1, "OnMouseHover")
        ELSE DefaultMouseHover(c1, h, mouseMsg)

\* variant: the leave handler sets the flag the way enter does
DefaultMouseLeave_SetsTrue(c, h, mouseMsg) ==
    LET c1 == SetX(Enter(c, "DefaultMouseLeave"), "IsHovered", TRUE)
    IN  Return(c1, IF h.EmitMessages
                   THEN <<Producer("hover", "MouseLeave", c.elem, mouseMsg, NoDrag)>>
                   ELSE <<>>)

\* variant: the leave policy clears the flag only when it broadcasts
DefaultMouseLeave_ClearsWhenEmitting(c, h, mouseMsg) ==
    LET c1 == SetX(Enter(c, "DefaultMouseLeave"), "IsHovered", ~h.EmitMessages)
    IN  Return(c1, IF h.EmitMessages
                   THEN <<Producer("hover", "MouseLeave", c.elem, mouseMsg, NoDrag)>>
                   ELSE <<>>)

DefaultMouseLeave(c, h, mouseMsg) ==
    LET c1 == SetX(Enter(c, "DefaultMouseLeave"), "IsHovered", FALSE)
    IN  Return(c1, IF h.EmitMessages
                   THEN <<Producer("hover", "MouseLeave", c.elem, mouseMsg, NoDrag)>>
                   ELSE <<>>)

HandleMouseLeave(c, h, mouseMsg) ==
    LET c1 == Enter(c, "HandleMouseLeave")
    IN  IF "OnMouseLeave" \in h.on THEN Custom(c1, "OnMouseLeave")
        ELSE DefaultMouseLeave(c1, h, mouseMsg)

\* ---------------------------------------------------------------- click.go
\* variant: the default click policy toggles the selection
DefaultClick_Toggles(c, h, mouseMsg) ==
    LET c0 == Enter(c, "DefaultClick")
        c1 == SetX(c0, "IsSelected", ~c0.x.IsSelected)
    IN  Return(c1, IF h.EmitMessages
                   THEN <<Producer("click", "Click", c.elem, mouseMsg, NoDrag)>>
                   ELSE <<>>)

DefaultClick(c, h, mouseMsg) ==
    LET c1 == SetX(Enter(c, "DefaultClick"), "IsSelected", TRUE)
    IN  Return(c1, IF h.EmitMessages
                   THEN <<Producer("click", "Click", c.elem, mouseMsg, NoDrag)>>
                   ELSE <<>>)

HandleClick(c, h, mouseMsg) ==
    LET c1 == Enter(c, "HandleClick")
    IN  IF "OnClick" \in h.on THEN Custom(c1, "OnClick")
        ELSE DefaultClick(c1, h, mouseMsg)

DefaultDoubleClick(c, h, mouseMsg) ==
    LET c1 == SetX(Enter(c, "DefaultDoubleClick"), "IsSelected", TRUE)
    IN  Return(c1, IF h.EmitMessages
                   THEN <<Producer("click", "DoubleClick", c.elem, mouseMsg, NoDrag)>>
                   ELSE <<>>)

HandleDoubleClick(c, h, mouseMsg) ==
    LET c1 == Enter(c, "HandleDoubleClick")
    IN  IF "OnDoubleClick" \in h.on THEN Custom(c1, "OnDoubleClick")
        ELSE DefaultDoubleClick(c1, h, mouseMsg)

\* The event built by the default right-click policy has EventType DoubleClick.
DefaultRightClick(c, h, mouseMsg) ==
    LET c1 == SetX(Enter(c, "DefaultRightClick"), "IsSelected", TRUE)
    IN  Return(c1, IF h.EmitMessages
                   THEN <<Producer("click", "DoubleClick", c.elem, mouseMsg, NoDrag)>>
                   ELSE <<>>)

\* variant: the right-click entry point falls back to the default policy
HandleRightClick_AppliesDefault(c, h, mouseMsg) ==
    LET c1 == Enter(c, "HandleRightClick")
    IN  IF "OnRightClick" \in h.on THEN Custom(c1, "OnRightClick")
        ELSE DefaultRightClick(c1, h, mouseMsg)

\* Without OnRightClick the entry point returns `element, nil`.
HandleRightClick(c, h, mouseMsg) ==
    LET c1 == Enter(c, "HandleRightClick")
    IN  IF "OnRightClick" \in h.on THEN Custom(c1, "OnRightClick")
        ELSE Return(c1, <<>>)

\* ---------------------------------------------------------------- drag.go
\* variant: drag-start keeps the offset of the previous drag
DefaultDragStart_KeepsOffset(c, h, mouseMsg) ==
    LET c1 == SetX(Enter(c, "DefaultDragStart"), "IsDragging", TRUE)
        c2 == SetX(c1, "DragOrigin", Point(mouseMsg.X, mouseMsg.Y))
    IN  Return(c2, IF h.EmitMessages
                   THEN <<Producer("drag", "DragStart", c.elem, mouseMsg, NoDrag)>>
                   ELSE <<>>)

DefaultDragStart(c, h, mouseMsg) ==
    LET c1 == SetX(Enter(c, "DefaultDragStart"), "IsDragging", TRUE)
        c2 == SetX(c1, "DragOrigin", Point(mouseMsg.X, mouseMsg.Y))
        c3 == SetX(c2, "DragOffset", Point(0, 0))
    IN  Return(c3, IF h.EmitMessages
                   THEN <<Producer("drag", "DragStart", c.elem, mouseMsg, NoDrag)>>
                   ELSE <<>>)

HandleDragStart(c, h, mouseMsg) ==
    LET c1 == Enter(c, "HandleDragStart")
    IN  IF "OnDragStart" \in h.on THEN Custom(c1, "OnDragStart")
        ELSE DefaultDragStart(c1, h, mouseMsg)

DefaultDragMove(c, h, mouseMsg) ==
    LET c1 == SetX(Enter(c, "DefaultDragMove"), "IsDragging", TRUE)
        c2 == SetX(c1, "DragOffset", Point(mouseMsg.X - c1.x.DragOrigin.X,
                                           mouseMsg.Y - c1.x.DragOrigin.Y))
    IN  Return(c2, IF h.EmitMessages
                   THEN <<Producer("drag", "DragMove", c.elem, mouseMsg, NoDrag)>>
                   ELSE <<>>)

HandleDragMove(c, h, mouseMsg) ==
    LET c1 == Enter(c, "HandleDragMove")
    IN  IF "OnDragMove" \in h.on THEN Custom(c1, "OnDragMove")
        ELSE DefaultDragMove(c1, h, mouseMsg)

\* variant: drag-end records the offset of the release position
DefaultDragEnd_TracksRelease(c, h, mouseMsg) ==
    LET c1 == SetX(Enter(c, "DefaultDragEnd"), "IsDragging", FALSE)
        c2 == SetX(c1, "DragOffset", Point(mouseMsg.X - c1.x.DragOrigin.X,
                                           mouseMsg.Y - c1.x.DragOrigin.Y))
    IN  Return(c2, IF h.EmitMessages
                   THEN <<Producer("drag", "DragEnd", c.elem, mouseMsg, NoDrag)>>
                   ELSE <<>>)

DefaultDragEnd(c, h, mouseMsg) ==
    LET c1 == SetX(Enter(c, "DefaultDragEnd"), "IsDragging", FALSE)
    IN  Return(c1, IF h.EmitMessages
                   THEN <<Producer("drag", "DragEnd", c.elem, mouseMsg, NoDrag)>>
                   ELSE <<>>)

HandleDragEnd(c, h, mouseMsg) ==
    LET c1 == Enter(c, "HandleDragEnd")
    IN  IF "OnDragEnd" \in h.on THEN Custom(c1, "OnDragEnd")
        ELSE DefaultDragEnd(c1, h, mouseMsg)

\* ---------------------------------------------------------------- drop.go
RECURSIVE RangeAccepted(_, _, _)
\* for _, dropType := range h.AcceptedDropTypes { if dragEvent.DragType == dropType { return true } }
RangeAccepted(types, k, dragType) ==
    IF k > Len(types) THEN FALSE
    ELSE IF dragType = types[k] THEN TRUE
    ELSE RangeAccepted(types, k + 1, dragType)

\* variant: only the first accepted type is compared
DefaultIsAcceptable_FirstOnly(h, dragEvent) ==
    /\ Len(h.AcceptedDropTypes) >= 1
    /\ dragEvent.DragType = h.AcceptedDropTypes[1]

DefaultIsAcceptable(h, dragEvent) == RangeAccepted(h.AcceptedDropTypes, 1, dragEvent.DragType)

\* An application-supplied IsAcceptable: modelled as a predicate accepting every drag.
CustomIsAcceptable(h, dragEvent) == TRUE

HandleIsAcceptable(h, dragEvent) ==
    IF "IsAcceptable" \in h.on THEN CustomIsAcceptable(h, dragEvent)
    ELSE DefaultIsAcceptable(h, dragEvent)

DefaultDropEnter(c, h, dragEvent) ==
    LET c1 == SetX(Enter(c, "DefaultDropEnter"), "IsBelowDrop", TRUE)
        c2 == SetX(c1, "IsValidDrop", HandleIsAcceptable(h, dragEvent))
    IN  Return(c2, IF h.EmitMessages
                   THEN <<Producer("drop", "DropEnter", c.elem, NoMouse, dragEvent)>>
                   ELSE <<>>)

HandleDropEnter(c, h, dragEvent) ==
    LET c1 == Enter(c, "HandleDropEnter")
    IN  IF "OnDropEnter" \in h.on THEN Custom(c1, "OnDropEnter")
        ELSE DefaultDropEnter(c1, h, dragEvent)

DefaultDropHover(c, h, dragEvent) ==
    LET c1 == SetX(Enter(c, "DefaultDropHover"), "IsBelowDrop", TRUE)
        c2 == SetX(c1, "IsValidDrop", HandleIsAcceptable(h, dragEvent))
    IN  Return(c2, IF h.EmitMessages
                   THEN <<Producer("drop", "DropHover", c.elem, NoMouse, dragEvent)>>
                   ELSE <<>>)

HandleDropHover(c, h, dragEvent) ==
    LET c1 == Enter(c, "HandleDropHover")
    IN  IF "OnDropHover" \in h.on THEN Custom(c1, "OnDropHover")
        ELSE DefaultDropHover(c1, h, dragEvent)

DefaultDropLeave(c, h, dragEvent) ==
    LET c1 == SetX(Enter(c, "DefaultDropLeave"), "IsBelowDrop", FALSE)
        cmd == IF h.EmitMessages
               THEN <<Producer("drop", "DropLeave", c.elem, NoMouse, dragEvent)>>
               ELSE <<>>
        c2 == SetX(c1, "IsValidDrop", FALSE)
    IN  Return(c2, cmd)

HandleDropLeave(c, h, dragEvent) ==
    LET c1 == Enter(c, "HandleDropLeave")
    IN  IF "OnDropLeave" \in h.on THEN Custom(c1, "OnDropLeave")
        ELSE DefaultDropLeave(c1, h, dragEvent)

DefaultDropAccept(c, h, dragEvent) ==
    LET c0 == Enter(c, "DefaultDropAccept")
        cmd == IF h.EmitMessages
               THEN <<Producer("drop", "DropAccept", c.elem, NoMouse, dragEvent)>>
               ELSE <<>>
        c1 == SetX(c0, "IsBelowDrop", FALSE)
        c2 == SetX(c1, "IsValidDrop", FALSE)
    IN  Return(c2, cmd)

HandleDropAccept(c, h, dragEvent) ==
    LET c1 == Enter(c, "HandleDropAccept")
    IN  IF "OnDropAccept" \in h.on THEN Custom(c1, "OnDropAccept")
        ELSE DefaultDropAccept(c1, h, dragEvent)

\* variant: deny clears the below flag and leaves the validity as it finds it
DefaultDropDeny_KeepsValidity(c, h, dragEvent) ==
    LET c0 == Enter(c, "DefaultDropDeny")
        cmd == IF h.EmitMessages
               THEN <<Producer("drop", "DropDeny", c.elem, NoMouse, dragEvent)>>
               ELSE <<>>
    IN  Return(SetX(c0, "IsBelowDrop", FALSE), cmd)

DefaultDropDeny(c, h, dragEvent) ==
    LET c0 == Enter(c, "DefaultDropDeny")
        cmd == IF h.EmitMessages
               THEN <<Producer("drop", "DropDeny", c.elem, NoMouse, dragEvent)>>
               ELSE <<>>
        c1 == SetX(c0, "IsBelowDrop", FALSE)
        c2 == SetX(c1, "IsValidDrop", FALSE)
    IN  Return(c2, cmd)

HandleDropDeny(c, h, dragEvent) ==
    LET c1 == Enter(c, "HandleDropDeny")
    IN  IF "OnDropDeny" \in h.on THEN Custom(c1, "OnDropDeny")
        ELSE DefaultDropDeny(c1, h, dragEvent)

\* variant: the follow-on is chosen from the validity left by the previous pass
DefaultDropRelease_StaleValidity(c, h, dragEvent) ==
    LET c0 == Enter(c, "DefaultDropRelease")
        c1 == SetX(c0, "IsValidDrop", HandleIsAcceptable(h, dragEvent))
        cmds == IF h.EmitMessages
                THEN <<Producer("drop", "DropRelease", c.elem, NoMouse, dragEvent)>>
                ELSE <<>>
        c2 == IF c0.x.IsValidDrop THEN HandleDropAccept(c1, h, dragEvent)
              ELSE HandleDropDeny(c1, h, dragEvent)
    IN  Return(c2, cmds \o c2.cmd)

\* variant: both branches of the release call the accept handler
DefaultDropRelease_AlwaysAccept(c, h, dragEvent) ==
    LET c1 == SetX(Enter(c, "DefaultDropRelease"), "IsValidDrop",
                   HandleIsAcceptable(h, dragEvent))
        cmds == IF h.EmitMessages
                THEN <<Producer("drop", "DropRelease", c.elem, NoMouse, dragEvent)>>
                ELSE <<>>
        c2 == HandleDropAccept(c1, h, dragEvent)
    IN  Return(c2, cmds \o c2.cmd)

\* variant: the release batches the follow-on's producer ahead of its own
DefaultDropRelease_FollowOnFirst(c, h, dragEvent) ==
    LET c1 == SetX(Enter(c, "DefaultDropRelease"), "IsValidDrop",
                   HandleIsAcceptable(h, dragEvent))
        cmds == IF h.EmitMessages
                THEN <<Producer("drop", "DropRelease", c.elem, NoMouse, dragEvent)>>
                ELSE <<>>
        c2 == IF c1.x.IsValidDrop THEN HandleDropAccept(c1, h, dragEvent)
              ELSE HandleDropDeny(c1, h, dragEvent)
    IN  Return(c2, c2.cmd \o cmds)

DefaultDropRelease(c, h, dragEvent) ==
    LET c1 == SetX(Enter(c, "DefaultDropRelease"), "IsValidDrop",
                   HandleIsAcceptable(h, dragEvent))
        cmds == IF h.EmitMessages
                THEN <<Producer("drop", "DropRelease", c.elem, NoMouse, dragEvent)>>
                ELSE <<>>
        c2 == IF c1.x.IsValidDrop THEN HandleDropAccept(c1, h, dragEvent)
              ELSE HandleDropDeny(c1, h, dragEvent)
    IN  Return(c2, cmds \o c2.cmd)

HandleDropRelease(c, h, dragEvent) ==
    LET c1 == Enter(c, "HandleDropRelease")
    IN  IF "OnDropRelease" \in h.on THEN Custom(c1, "OnDropRelease")
        ELSE DefaultDropRelease(c1, h, dragEvent)

\* ---------------------------------------------------------------- bounds
\* zone.Get(id).InBounds(mouseMsg): the zone registry is external; element id
\* occupies column id of the screen.
Zone(id) == {p \in [X : 0..MaxX, Y : 0..MaxY] : p.X = id}

DefaultIsInside(i, mouseMsg) == Point(mouseMsg.X, mouseMsg.Y) \in Zone(i.ID)

\* An application-supplied IsInside: modelled as a test that accepts every cell.
CustomIsInside(i, mouseMsg) == TRUE

\* ---------------------------------------------------------------- dispatcher (local)
\* variant: enter fires on every inside move, hovered or not
LocalMotion_AlwaysEnter(c, mouseMsg, isInside) ==
    LET h  == c.i.Hover
        c1 == IF h.set
              THEN IF isInside
                   THEN Collect(HandleMouseHover(Collect(HandleMouseEnter(c, h, mouseMsg)),
                                                 h, mouseMsg))
                   ELSE IF c.i.IsHovered
                        THEN Collect(HandleMouseLeave(c, h, mouseMsg))
                        ELSE c
              ELSE c
    IN  IF c1.i.Drag.set /\ c1.i.IsDragging
        THEN Collect(HandleDragMove(c1, c1.i.Drag, mouseMsg))
        ELSE c1

\* variant: an inside move goes straight to the repeat hover handler
LocalMotion_SkipEnter(c, mouseMsg, isInside) ==
    LET h  == c.i.Hover
        c1 == IF h.set
              THEN IF isInside
                   THEN Collect(HandleMouseHover(c, h, mouseMsg))
                   ELSE IF c.i.IsHovered
                        THEN Collect(HandleMouseLeave(c, h, mouseMsg))
                        ELSE c
              ELSE c
    IN  IF c1.i.Drag.set /\ c1.i.IsDragging
        THEN Collect(HandleDragMove(c1, c1.i.Drag, mouseMsg))
        ELSE c1

\* variant: drag-move fires only while the pointer is inside the bounds
LocalMotion_DragInsideOnly(c, mouseMsg, isInside) ==
    LET h  == c.i.Hover
        c1 == IF h.set
              THEN IF isInside
                   THEN LET a == IF ~c.i.IsHovered
                                 THEN Collect(HandleMouseEnter(c, h, mouseMsg))
                                 ELSE c
                        IN  Collect(HandleMouseHover(a, h, mouseMsg))
                   ELSE IF c.i.IsHovered
                        THEN Collect(HandleMouseLeave(c, h, mouseMsg))
                        ELSE c
              ELSE c
    IN  IF c1.i.Drag.set /\ c1.i.IsDragging /\ isInside
        THEN Collect(HandleDragMove(c1, c1.i.Drag, mouseMsg))
        ELSE c1

\* variant: the drag block of the move case runs before the hover block
LocalMotion_DragFirst(c, mouseMsg, isInside) ==
    LET h  == c.i.Hover
        c1 == IF c.i.Drag.set /\ c.i.IsDragging
              THEN Collect(HandleDragMove(c, c.i.Drag, mouseMsg))
              ELSE c
    IN  IF h.set
        THEN IF isInside
             THEN LET a == IF ~c1.i.IsHovered
                           THEN Collect(HandleMouseEnter(c1, h, mouseMsg))
                           ELSE c1
                  IN  Collect(HandleMouseHover(a, h, mouseMsg))
             ELSE IF c1.i.IsHovered
                  THEN Collect(HandleMouseLeave(c1, h, mouseMsg))
                  ELSE c1
        ELSE c1

LocalMotion(c, mouseMsg, isInside) ==
    LET h  == c.i.Hover
        c1 == IF h.set
              THEN IF isInside
                   THEN LET a == IF ~c.i.IsHovered
                                 THEN Collect(HandleMouseEnter(c, h, mouseMsg))
                                 ELSE c
                        IN  Collect(HandleMouseHover(a, h, mouseMsg))
                   ELSE IF c.i.IsHovered
                        THEN Collect(HandleMouseLeave(c, h, mouseMsg))
                        ELSE c
              ELSE c
    IN  IF c1.i.Drag.set /\ c1.i.IsDragging
        THEN Collect(HandleDragMove(c1, c1.i.Drag, mouseMsg))
        ELSE c1

\* variant: a press inside the bounds starts a drag whether or not click is bound
LocalPress_DragWithoutClick(c, mouseMsg, isInside) ==
    IF isInside
    THEN LET c1 == IF c.i.Click.set THEN Collect(HandleClick(c, c.i.Click, mouseMsg)) ELSE c
         IN  IF c1.i.Drag.set
             THEN Collect(HandleDragStart(SetI(c1, "IsDragging", TRUE), c1.i.Drag, mouseMsg))
             ELSE c1
    ELSE c

\* variant: a press starts a drag wherever it lands, selecting only when inside
LocalPress_DragAnywhere(c, mouseMsg, isInside) ==
    LET c1 == IF c.i.Click.set /\ isInside
              THEN Collect(HandleClick(c, c.i.Click, mouseMsg))
              ELSE c
    IN  IF c1.i.Click.set /\ c1.i.Drag.set
        THEN Collect(HandleDragStart(SetI(c1, "IsDragging", TRUE), c1.i.Drag, mouseMsg))
        ELSE c1

\* variant: the press marks the element as dragging without firing drag-start
LocalPress_NoStart(c, mouseMsg, isInside) ==
    IF c.i.Click.set /\ isInside
    THEN LET c1 == Collect(HandleClick(c, c.i.Click, mouseMsg))
         IN  IF c1.i.Drag.set THEN SetI(c1, "IsDragging", TRUE) ELSE c1
    ELSE c

\* variant: a press that misses the element cancels its open drag
LocalPress_OutsideCancels(c, mouseMsg, isInside) ==
    IF c.i.Click.set /\ isInside
    THEN LET c1 == Collect(HandleClick(c, c.i.Click, mouseMsg))
         IN  IF c1.i.Drag.set
             THEN Collect(HandleDragStart(SetI(c1, "IsDragging", TRUE), c1.i.Drag, mouseMsg))
             ELSE c1
    ELSE SetI(c, "IsDragging", FALSE)

LocalPress(c, mouseMsg, isInside) ==
    IF c.i.Click.set /\ isInside
    THEN LET c1 == Collect(HandleClick(c, c.i.Click, mouseMsg))
         IN  IF c1.i.Drag.set
             THEN Collect(HandleDragStart(SetI(c1, "IsDragging", TRUE), c1.i.Drag, mouseMsg))
             ELSE c1
    ELSE c

\* variant: a release over a drop target withdraws the validity of the drop
LocalRelease_ClearsValidDrop(c, mouseMsg) ==
    LET c1 == IF c.i.Drop.set THEN SetI(c, "IsValidDrop", FALSE) ELSE c
    IN  IF c1.i.Drag.set /\ c1.i.IsDragging
        THEN Collect(HandleDragEnd(SetI(c1, "IsDragging", FALSE), c1.i.Drag, mouseMsg))
        ELSE c1

\* variant: the dispatcher leaves clearing the flag to the drag-end policy
LocalRelease_NoClear(c, mouseMsg) ==
    IF c.i.Drag.set /\ c.i.IsDragging
    THEN Collect(HandleDragEnd(c, c.i.Drag, mouseMsg))
    ELSE c

LocalRelease(c, mouseMsg) ==
    IF c.i.Drag.set /\ c.i.IsDragging
    THEN Collect(HandleDragEnd(SetI(c, "IsDragging", FALSE), c.i.Drag, mouseMsg))
    ELSE c

\* variant: the handler returns without copying its receiver into the element's record
DefaultLocalHandler_NoCopy(c, mouseMsg) ==
    LET c0 == Enter(c, "DefaultLocalHandler")
    IN  IF ~c0.i.Click.set /\ ~c0.i.Hover.set /\ ~c0.i.Drag.set /\ ~c0.i.Drop.set
        THEN Return(c0, <<>>)
        ELSE LET isInside == IF c0.i.IsInside THEN CustomIsInside(c0.i, mouseMsg)
                             ELSE DefaultIsInside(c0.i, mouseMsg)
                 c1 == CASE mouseMsg.Action = "Motion" -> LocalMotion(c0, mouseMsg, isInside)
                         [] mouseMsg.Action = "Press" -> LocalPress(c0, mouseMsg, isInside)
                         [] mouseMsg.Action = "Release" -> LocalRelease(c0, mouseMsg)
                         [] OTHER -> c0
             IN  Return(c1, c1.cmds)

\* variant: the fast path hands back an element whose interaction flags are zeroed
DefaultLocalHandler_FastPathResets(c, mouseMsg) ==
    LET c0 == Enter(c, "DefaultLocalHandler")
        zero == Interactable(c0.x.ID, NilHandler, NilHandler, NilHandler, NilHandler,
                             NilHandler, NilHandler, NilHandler, NilHandler)
    IN  IF ~c0.i.Click.set /\ ~c0.i.Hover.set /\ ~c0.i.Drag.set /\ ~c0.i.Drop.set
        THEN Return([c0 EXCEPT !.x = [f \in DOMAIN c0.x |->
                                         IF f \in DOMAIN Flags(c0.x) THEN zero[f] ELSE c0.x[f]]],
                    <<>>)
        ELSE LET isInside == IF c0.i.IsInside THEN CustomIsInside(c0.i, mouseMsg)
                             ELSE DefaultIsInside(c0.i, mouseMsg)
                 c1 == CASE mouseMsg.Action = "Motion" -> LocalMotion(c0, mouseMsg, isInside)
                         [] mouseMsg.Action = "Press" -> LocalPress(c0, mouseMsg, isInside)
                         [] mouseMsg.Action = "Release" -> LocalRelease(c0, mouseMsg)
                         [] OTHER -> c0
                 c2 == [c1 EXCEPT !.x = c1.i]
             IN  Return(c2, c2.cmds)

DefaultLocalHandler(c, mouseMsg) ==
    LET c0 == Enter(c, "DefaultLocalHandler")
    IN  IF ~c0.i.Click.set /\ ~c0.i.Hover.set /\ ~c0.i.Drag.set /\ ~c0.i.Drop.set
        THEN Return(c0, <<>>)
        ELSE LET isInside == IF c0.i.IsInside THEN CustomIsInside(c0.i, mouseMsg)
                             ELSE DefaultIsInside(c0.i, mouseMsg)
                 c1 == CASE mouseMsg.Action = "Motion" -> LocalMotion(c0, mouseMsg, isInside)
                         [] mouseMsg.Action = "Press" -> LocalPress(c0, mouseMsg, isInside)
                         [] mouseMsg.Action = "Release" -> LocalRelease(c0, mouseMsg)
                         [] OTHER -> c0
                 \* interaction := element.GetInteraction(); *interaction = *i
                 c2 == [c1 EXCEPT !.x = c1.i]
             IN  Return(c2, c2.cmds)

\* Calling a nil function value panics; nothing after the call runs.
CallNil(c, name) == [Enter(c, name) EXCEPT !.panic = TRUE, !.cmd = <<>>]

\* variant: the local dispatcher guards its hook with the other hook's slot
HandleMouseMsgCall_GuardsExternal(c, mouseMsg) ==
    IF c.i.ExternalHandler
    THEN IF c.i.LocalHandler THEN Custom(c, "LocalHandler")
         ELSE CallNil(c, "LocalHandler")
    ELSE DefaultLocalHandler(c, mouseMsg)

HandleMouseMsgCall(c, mouseMsg) ==
    IF c.i.LocalHandler THEN Custom(c, "LocalHandler")
    ELSE DefaultLocalHandler(c, mouseMsg)

\* ---------------------------------------------------------------- event handlers
\* click.go, hover.go, drag.go: the event-aware handlers have no default behaviour.
EventOnly(c, h, entry, on) ==
    LET c1 == Enter(c, entry)
    IN  IF on \in h.on THEN Custom(c1, on) ELSE Return(c1, <<>>)

HandleClickEvent(c, h, ev) == EventOnly(c, h, "HandleClickEvent", "OnClickEvent")

HandleDoubleClickEvent(c, h, ev) == EventOnly(c, h, "HandleDoubleClickEvent", "OnDoubleClickEvent")

HandleRightClickEvent(c, h, ev) == EventOnly(c, h, "HandleRightClickEvent", "OnRightClickEvent")
\* variant: an enter event of any element marks the receiver as hovered
HandleMouseEnterEvent_Mirrors(c, h, ev) ==
    LET c1 == Enter(c, "HandleMouseEnterEvent")
    IN  IF "OnMouseEnterEvent" \in h.on THEN Custom(c1, "OnMouseEnterEvent")
        ELSE Return(SetX(c1, "IsHovered", TRUE), <<>>)

HandleMouseEnterEvent(c, h, ev) == EventOnly(c, h, "HandleMouseEnterEvent", "OnMouseEnterEvent")

HandleMouseHoverEvent(c, h, ev) == EventOnly(c, h, "HandleMouseHoverEvent", "OnMouseHoverEvent")

HandleMouseLeaveEvent(c, h, ev) == EventOnly(c, h, "HandleMouseLeaveEvent", "OnMouseLeaveEvent")

HandleDragStartEvent(c, h, ev) == EventOnly(c, h, "HandleDragStartEvent", "OnDragStartEvent")

HandleDragMoveEvent(c, h, ev) == EventOnly(c, h, "HandleDragMoveEvent", "OnDragMoveEvent")

HandleDragEndEvent(c, h, ev) == EventOnly(c, h, "HandleDragEndEvent", "OnDragEndEvent")

\* drop.go, event-aware half
DefaultDropEnterEvent(c, h, dropEvent) ==
    LET c1 == SetX(Enter(c, "DefaultDropEnterEvent"), "IsAboveDrop", TRUE)
    IN  Return(SetX(c1, "IsValidDrop", dropEvent.Acceptable), <<>>)

HandleDropEnterEvent(c, h, dropEvent) ==
    LET c1 == Enter(c, "HandleDropEnterEvent")
    IN  IF "OnDropEnterEvent" \in h.on THEN Custom(c1, "OnDropEnterEvent")
        ELSE Return(c1, <<>>)

DefaultDropHoverEvent(c, h, dropEvent) ==
    LET c1 == SetX(Enter(c, "DefaultDropHoverEvent"), "IsAboveDrop", TRUE)
    IN  Return(SetX(c1, "IsValidDrop", dropEvent.Acceptable), <<>>)

HandleDropHoverEvent(c, h, dropEvent) ==
    LET c1 == Enter(c, "HandleDropHoverEvent")
    IN  IF "OnDropEnterEvent" \in h.on
        THEN IF "OnDropHoverEvent" \in h.on THEN Custom(c1, "OnDropHoverEvent")
             ELSE CallNil(c1, "OnDropHoverEvent")
        ELSE DefaultDropHoverEvent(c1, h, dropEvent)

DefaultDropLeaveEvent(c, h, dropEvent) ==
    LET c1 == SetX(Enter(c, "DefaultDropLeaveEvent"), "IsAboveDrop", FALSE)
    IN  Return(SetX(c1, "IsValidDrop", dropEvent.Acceptable), <<>>)

HandleDropLeaveEvent(c, h, dropEvent) ==
    LET c1 == Enter(c, "HandleDropLeaveEvent")
    IN  IF "OnDropLeaveEvent" \in h.on THEN Custom(c1, "OnDropLeaveEvent")
        ELSE DefaultDropLeaveEvent(c1, h, dropEvent)

DefaultDropReleaseEvent(c, h, dropEvent) ==
    LET c1 == SetX(Enter(c, "DefaultDropReleaseEvent"), "IsAboveDrop", FALSE)
    IN  Return(SetX(c1, "IsValidDrop", FALSE), <<>>)

HandleDropReleaseEvent(c, h, dropEvent) ==
    LET c1 == Enter(c, "HandleDropReleaseEvent")
    IN  IF "OnDropReleaseEvent" \in h.on THEN Custom(c1, "OnDropReleaseEvent")
        ELSE DefaultDropReleaseEvent(c1, h, dropEvent)

DefaultDropAcceptEvent(c, h, dropEvent) ==
    LET c1 == SetX(Enter(c, "DefaultDropAcceptEvent"), "IsAboveDrop", FALSE)
    IN  Return(SetX(c1, "IsValidDrop", FALSE), <<>>)

HandleDropAcceptEvent(c, h, dropEvent) ==
    LET c1 == Enter(c, "HandleDropAcceptEvent")
    IN  IF "OnDropAcceptEvent" \in h.on THEN Custom(c1, "OnDropAcceptEvent")
        ELSE DefaultDropAcceptEvent(c1, h, dropEvent)

DefaultDropDenyEvent(c, h, dropEvent) ==
    LET c1 == SetX(Enter(c, "DefaultDropDenyEvent"), "IsAboveDrop", FALSE)
    IN  Return(SetX(c1, "IsValidDrop", FALSE), <<>>)

HandleDropDenyEvent(c, h, dropEvent) ==
    LET c1 == Enter(c, "HandleDropDenyEvent")
    IN  IF "OnDropDenyEvent" \in h.on THEN Custom(c1, "OnDropDenyEvent")
        ELSE DefaultDropDenyEvent(c1, h, dropEvent)

\* ---------------------------------------------------------------- dispatcher (external)
ExternalClick(c, msg) ==
    LET h == c.i.ClickEvent
    IN  IF h.set
        THEN Collect(CASE msg.EventType = "Click" -> HandleClickEvent(c, h, msg)
                       [] msg.EventType = "DoubleClick" -> HandleDoubleClickEvent(c, h, msg)
                       [] msg.EventType = "RightClick" -> HandleRightClickEvent(c, h, msg)
                       [] OTHER -> c)
        ELSE c

\* variant: the hover router hands enter events to the leave handler and back
ExternalHover_SwapsEnterLeave(c, msg) ==
    LET h == c.i.HoverEvent
    IN  IF h.set
        THEN Collect(CASE msg.EventType = "MouseEnter" -> HandleMouseLeaveEvent(c, h, msg)
                       [] msg.EventType = "MouseHover" -> HandleMouseHoverEvent(c, h, msg)
                       [] msg.EventType = "MouseLeave" -> HandleMouseEnterEvent(c, h, msg)
                       [] OTHER -> c)
        ELSE c

ExternalHover(c, msg) ==
    LET h == c.i.HoverEvent
    IN  IF h.set
        THEN Collect(CASE msg.EventType = "MouseEnter" -> HandleMouseEnterEvent(c, h, msg)
                       [] msg.EventType = "MouseHover" -> HandleMouseHoverEvent(c, h, msg)
                       [] msg.EventType = "MouseLeave" -> HandleMouseLeaveEvent(c, h, msg)
                       [] OTHER -> c)
        ELSE c

ExternalDrag(c, msg) ==
    LET h == c.i.DragEvent
    IN  IF h.set
        THEN Collect(CASE msg.EventType = "DragStart" -> HandleDragStartEvent(c, h, msg)
                       [] msg.EventType = "DragMove" -> HandleDragMoveEvent(c, h, msg)
                       [] msg.EventType = "DragEnd" -> HandleDragEndEvent(c, h, msg)
                       [] OTHER -> c)
        ELSE c

\* variant: a drop event of any other kind is handled as a release
ExternalDrop_OtherReleases(c, msg) ==
    LET h == c.i.DropEvent
    IN  IF h.set
        THEN Collect(CASE msg.EventType = "DropEnter" -> HandleDropEnterEvent(c, h, msg)
                       [] msg.EventType = "DropHover" -> HandleDropHoverEvent(c, h, msg)
                       [] msg.EventType = "DropLeave" -> HandleDropLeaveEvent(c, h, msg)
                       [] msg.EventType = "DropAccept" -> HandleDropAcceptEvent(c, h, msg)
                       [] msg.EventType = "DropDeny" -> HandleDropDenyEvent(c, h, msg)
                       [] OTHER -> HandleDropReleaseEvent(c, h, msg))
        ELSE c

ExternalDrop(c, msg) ==
    LET h == c.i.DropEvent
    IN  IF h.set
        THEN Collect(CASE msg.EventType = "DropEnter" -> HandleDropEnterEvent(c, h, msg)
                       [] msg.EventType = "DropHover" -> HandleDropHoverEvent(c, h, msg)
                       [] msg.EventType = "DropLeave" -> HandleDropLeaveEvent(c, h, msg)
                       [] msg.EventType = "DropRelease" -> HandleDropReleaseEvent(c, h, msg)
                       [] msg.EventType = "DropAccept" -> HandleDropAcceptEvent(c, h, msg)
                       [] msg.EventType = "DropDeny" -> HandleDropDenyEvent(c, h, msg)
                       [] OTHER -> c)
        ELSE c

\* The dynamic type of a message: one of the four semantic events, or a
\* tea.MouseMsg.
TypeOf(msg) == IF "cat" \in DOMAIN msg THEN msg.cat ELSE "mouse"

\* switch msg := msg.(type): a message of any other type matches no case.
DefaultExternalHandler(c, msg) ==
    LET c0 == Enter(c, "DefaultExternalHandler")
    IN  IF ~c0.i.ClickEvent.set /\ ~c0.i.HoverEvent.set /\ ~c0.i.DragEvent.set
           /\ ~c0.i.DropEvent.set
        THEN Return(c0, <<>>)
        ELSE LET c1 == CASE TypeOf(msg) = "click" -> ExternalClick(c0, msg)
                         [] TypeOf(msg) = "hover" -> ExternalHover(c0, msg)
                         [] TypeOf(msg) = "drag" -> ExternalDrag(c0, msg)
                         [] TypeOf(msg) = "drop" -> ExternalDrop(c0, msg)
                         [] OTHER -> c0
             IN  Return(c1, c1.cmds)

\* The parameter is a tea.MouseMsg.  The guard reads LocalHandler; the function
\* called is ExternalHandler.
HandleExternalEventCall(c, mouseMsg) ==
    IF c.i.LocalHandler
    THEN IF c.i.ExternalHandler THEN Custom(c, "ExternalHandler")
         ELSE CallNil(c, "ExternalHandler")
    ELSE DefaultExternalHandler(c, mouseMsg)

\* ---------------------------------------------------------------- host
\* The host runs a producer: the closure reads the owner's record now.
Invoke(p, rec) ==
    CASE p.cat = "click" -> ClickEvent(rec.ID, p.EventType, p.MouseMsg)
      [] p.cat = "hover" -> HoverEvent(rec.ID, p.EventType, p.MouseMsg)
      [] p.cat = "drag" -> DragEvent(rec.ID, p.EventType, "", rec.DragOrigin,
                                     rec.DragOffset, p.MouseMsg)
      [] p.cat = "drop" -> DropEvent(rec.ID, p.EventType,
                                     CASE p.EventType = "DropAccept" -> TRUE
                                       [] p.EventType = "DropDeny" -> FALSE
                                       [] OTHER -> rec.IsValidDrop,
                                     p.DragEvent)

\* ---------------------------------------------------------------- actions
Pass(op, e, msg, c) ==
    [op |-> op, elem |-> e, msg |-> msg, pre |-> Flags(els[e]), calls |-> c.calls,
     cmds |-> c.cmd, panic |-> c.panic]

NoPass == [op |-> "init", elem |-> 0, msg |-> NoMouse, pre |-> Flags(els[1]),
           calls |-> <<>>, cmds |-> <<>>, panic |-> FALSE]

\* The host gives a pointer message to element e: e.interaction.HandleMouseMsg(e, msg)
HandleMouseMsg(e, mouseMsg) ==
    LET c == HandleMouseMsgCall(Ctx(e, els[e], els[e], TRUE), mouseMsg)
    IN  /\ Len(pending) <= MaxBacklog
        /\ els' = [els EXCEPT ![e] = c.x]
        /\ last' = Pass("local", e, mouseMsg, c)
        /\ pending' = pending \o c.cmd
        /\ UNCHANGED inbox

\* e.interaction.HandleExternalEvent(e, mouseMsg): the method's parameter type
\* admits pointer messages only.
HandleExternalEvent(e, mouseMsg) ==
    LET c == HandleExternalEventCall(Ctx(e, els[e], els[e], TRUE), mouseMsg)
    IN  /\ Len(pending) <= MaxBacklog
        /\ els' = [els EXCEPT ![e] = c.x]
        /\ last' = Pass("external", e, mouseMsg, c)
        /\ pending' = pending \o c.cmd
        /\ UNCHANGED inbox

\* The application gives a semantic event to element e through the exported
\* default router: e.interaction.DefaultExternalHandler(e, msg)
DeliverEvent(e, msg) ==
    LET c == DefaultExternalHandler(Ctx(e, els[e], els[e], TRUE), msg)
    IN  /\ Len(pending) <= MaxBacklog
        /\ els' = [els EXCEPT ![e] = c.x]
        /\ last' = Pass("event", e, msg, c)
        /\ pending' = pending \o c.cmd
        /\ UNCHANGED inbox

\* The application calls one of the click entry points of element e's Click
\* handler.
ClickEntry(c, h, kind, mouseMsg) ==
    CASE kind = "Click" -> HandleClick(c, h, mouseMsg)
      [] kind = "DoubleClick" -> HandleDoubleClick(c, h, mouseMsg)
      [] kind = "RightClick" -> HandleRightClick(c, h, mouseMsg)

ClickCall(e, kind, mouseMsg) ==
    LET c == ClickEntry(Ctx(e, els[e], els[e], TRUE), els[e].Click, kind, mouseMsg)
    IN  /\ els[e].Click.set
        /\ Len(pending) <= MaxBacklog
        /\ els' = [els EXCEPT ![e] = c.x]
        /\ last' = Pass(kind, e, mouseMsg, c)
        /\ pending' = pending \o c.cmd
        /\ UNCHANGED inbox

\* The application calls one of the drop entry points of element e's Drop
\* handler; the host takes the call's batch while it holds fewer than MaxInbox
\* producers and messages.
DropEntry(c, h, kind, dragEvent) ==
    CASE kind = "DropEnter" -> HandleDropEnter(c, h, dragEvent)
      [] kind = "DropHover" -> HandleDropHover(c, h, dragEvent)
      [] kind = "DropLeave" -> HandleDropLeave(c, h, dragEvent)
      [] kind = "DropRelease" -> HandleDropRelease(c, h, dragEvent)
      [] kind = "DropAccept" -> HandleDropAccept(c, h, dragEvent)
      [] kind = "DropDeny" -> HandleDropDeny(c, h, dragEvent)

\* variant: a drop-enter also marks the element being dragged as above the target
DropCall_MarksSource(e, kind, dragEvent) ==
    LET c == DropEntry(Ctx(e, els[e], els[e], TRUE), els[e].Drop, kind, dragEvent)
    IN  /\ els[e].Drop.set
        /\ Len(inbox) + Len(pending) + Len(c.cmd) <= MaxInbox
        /\ els' = [x \in Elems |->
                      IF x = e THEN c.x
                      ELSE IF x = dragEvent.ID /\ kind = "DropEnter"
                           THEN [els[x] EXCEPT !.IsAboveDrop = TRUE]
                           ELSE els[x]]
        /\ last' = Pass(kind, e, dragEvent, c)
        /\ pending' = pending \o c.cmd
        /\ UNCHANGED inbox

DropCall(e, kind, dragEvent) ==
    LET c == DropEntry(Ctx(e, els[e], els[e], TRUE), els[e].Drop, kind, dragEvent)
    IN  /\ els[e].Drop.set
        /\ Len(inbox) + Len(pending) + Len(c.cmd) <= MaxInbox
        /\ els' = [els EXCEPT ![e] = c.x]
        /\ last' = Pass(kind, e, dragEvent, c)
        /\ pending' = pending \o c.cmd
        /\ UNCHANGED inbox

\* The dispatcher of element a's record is given element b:
\* a.interaction.HandleMouseMsg(b, msg).  The receiver i is a's record, the
\* record element.GetInteraction() returns is b's; producers capture b's.
HandleMouseMsgOf(a, b, mouseMsg) ==
    LET c == HandleMouseMsgCall(Ctx(b, els[a], els[b], FALSE), mouseMsg)
    IN  /\ a # b
        /\ Len(pending) <= MaxBacklog
        /\ els' = [els EXCEPT ![a] = c.i, ![b] = c.x]
        /\ last' = Pass("shared", b, mouseMsg, c)
        /\ pending' = pending \o c.cmd
        /\ UNCHANGED inbox

\* The host gives one pointer message to two elements in the same Update, each
\* through its own dispatcher; the pass recorded is the second element's.
UpdateBoth(a, b, mouseMsg) ==
    LET ca == HandleMouseMsgCall(Ctx(a, els[a], els[a], TRUE), mouseMsg)
        cb == HandleMouseMsgCall(Ctx(b, els[b], els[b], TRUE), mouseMsg)
    IN  /\ els' = [els EXCEPT ![a] = ca.x, ![b] = cb.x]
        /\ last' = Pass("local", b, mouseMsg, cb)
        /\ pending' = pending \o ca.cmd \o cb.cmd
        /\ UNCHANGED inbox

\* The application calls the same drop entry point of two targets for the same
\* drag; the pass recorded is the second target's.
DropBoth(a, b, kind, dragEvent) ==
    LET ca == DropEntry(Ctx(a, els[a], els[a], TRUE), els[a].Drop, kind, dragEvent)
        cb == DropEntry(Ctx(b, els[b], els[b], TRUE), els[b].Drop, kind, dragEvent)
    IN  /\ els[a].Drop.set /\ els[b].Drop.set
        /\ els' = [els EXCEPT ![a] = ca.x, ![b] = cb.x]
        /\ last' = Pass(kind, b, dragEvent, cb)
        /\ pending' = pending \o ca.cmd \o cb.cmd
        /\ UNCHANGED inbox

\* The host runs the oldest producer and keeps the message for a later cycle.
HostInvoke ==
    /\ pending # <<>>
    /\ Len(inbox) < MaxInbox
    /\ LET p == Head(pending)
           ev == Invoke(p, els[p.owner])
       IN  /\ inbox' = Append(inbox, ev)
           /\ last' = [op |-> "host", elem |-> p.owner, msg |-> ev,
                       pre |-> Flags(els[p.owner]), calls |-> <<>>, cmds |-> <<>>,
                       panic |-> FALSE]
    /\ pending' = Tail(pending)
    /\ UNCHANGED els

\* The host runs the oldest producer and redelivers its message to element e at once.
HostRedeliver(e) ==
    /\ pending # <<>>
    /\ LET p == Head(pending)
           ev == Invoke(p, els[p.owner])
           c == DefaultExternalHandler(Ctx(e, els[e], els[e], TRUE), ev)
       IN  /\ els' = [els EXCEPT ![e] = c.x]
           /\ last' = Pass("redeliver", e, ev, c)
           /\ pending' = Tail(pending) \o c.cmd
    /\ UNCHANGED inbox

\* ---------------------------------------------------------------- inputs
\* Pointer messages given to HandleExternalEvent, one for each action: no
\* case of the router's type switch reads a pointer message.
ExternalMouseMsgs == {m \in MouseMsgs : m.X = 0 /\ m.Y = 0}

\* Drag events offered to drop targets, and semantic events an application may
\* deliver on its own.
Sources == {NumElems}

DragInputs == {DragEvent(s, "DragMove", t, Point(0, 0), Point(0, 0), NoMouse) :
                   s \in Sources, t \in DragTypes}

ExtEvents ==
    {ClickEvent(s, k, NoMouse) : s \in Sources, k \in ClickKinds}
    \cup {HoverEvent(s, k, NoMouse) : s \in Sources, k \in HoverKinds}
    \cup {DragEvent(s, k, "", Point(0, 0), Point(0, 0), NoMouse) : s \in Sources, k \in DragKinds}
    \cup {DropEvent(s, k, a, NoDrag) : s \in Sources, k \in DropKinds, a \in BOOLEAN}

\* ---------------------------------------------------------------- specification
Bound(on, emit) == Handler(TRUE, on, emit, <<>>)

Element(id, click, hover, drag, hoverEv, dropEv) ==
    Interactable(id, click, hover, drag, NilHandler, NilHandler, hoverEv, NilHandler, dropEv)

\* Elements the dispatcher specification starts from: click, hover and drag
\* with their default policies (with and without EmitMessages), a button that
\* hovers and listens to hover and drop events, a draggable whose drag-end
\* policy is an application function, and a pure listener to drop events.
Elements(id) ==
    {Element(id, Bound({}, e), Bound({}, e), Bound({}, e), NilHandler, NilHandler) :
        e \in BOOLEAN}
    \cup {Element(id, NilHandler, Bound({}, TRUE), NilHandler, Bound({}, FALSE), Bound({}, FALSE)),
          Element(id, Bound({}, TRUE), NilHandler, Bound({"OnDragEnd"}, TRUE),
                  NilHandler, NilHandler),
          Element(id, NilHandler, NilHandler, NilHandler, NilHandler, Bound({}, FALSE))}

\* The other elements on screen are buttons that only hover.
Bystander(id) == Element(id, NilHandler, Bound({}, FALSE), NilHandler, NilHandler, NilHandler)

Init ==
    /\ els \in {f \in [Elems -> UNION {Elements(id) \cup {Bystander(id)} : id \in Elems}] :
                   /\ f[1] \in Elements(1)
                   /\ \A e \in Elems \ {1} : f[e] = Bystander(e)}
    /\ last = NoPass
    /\ pending = <<>>
    /\ inbox = <<>>

\* The dispatcher specification drives the element in focus; the other
\* elements on screen stay idle.
Focus == {1}

Next ==
    \/ \E e \in Focus, m \in MouseMsgs : HandleMouseMsg(e, m)
    \/ \E e \in Focus, m \in ExternalMouseMsgs : HandleExternalEvent(e, m)
    \/ \E e \in Focus, ev \in ExtEvents : DeliverEvent(e, ev)
    \/ \E e \in Focus : HostRedeliver(e)

Spec == Init /\ [][Next]_vars

\* Drop targets: the Drop slot bound with default policies.  A silent target
\* has any list of accepted types; a broadcasting target accepts at most one type.
AcceptedLists == UNION {[1..n -> DragTypes] : n \in 0..MaxAccepted}

DropTarget(id, emit, acc) ==
    Interactable(id, NilHandler, NilHandler, NilHandler, Handler(TRUE, {}, emit, acc),
                 NilHandler, NilHandler, NilHandler, NilHandler)

DropTargets(id) ==
    {DropTarget(id, FALSE, acc) : acc \in AcceptedLists}
    \cup {DropTarget(id, TRUE, acc) : acc \in {a \in AcceptedLists : Len(a) <= 1}}

\* The entry points an application drives while a drag passes over a target;
\* accept and deny are dispatched by the release.
DropEntryKinds == {"DropEnter", "DropHover", "DropLeave", "DropRelease"}

InitDrop ==
    /\ els \in {f \in [Elems -> UNION {DropTargets(id) \cup {Bystander(id)} : id \in Elems}] :
                   /\ f[1] \in DropTargets(1)
                   /\ \A e \in Elems \ {1} : f[e] = Bystander(e)}
    /\ last = NoPass
    /\ pending = <<>>
    /\ inbox = <<>>

\* The application drives the drop entry points of the target in focus; the
\* host runs the returned producers and holds their messages.
NextDrop ==
    \/ \E e \in Focus, k \in DropEntryKinds, d \in DragInputs : DropCall(e, k, d)
    \/ HostInvoke

SpecDrop == InitDrop /\ [][NextDrop]_vars

\* A silent drop target whose six entry points the application calls directly,
\* in any order.
InitDropEntry ==
    /\ \E acc \in AcceptedLists :
           els = [e \in Elems |-> IF e = 1 THEN DropTarget(1, FALSE, acc) ELSE Bystander(e)]
    /\ last = NoPass
    /\ pending = <<>>
    /\ inbox = <<>>

NextDropEntry == \E e \in Focus, k \in DropKinds, d \in DragInputs : DropCall(e, k, d)

SpecDropEntry == InitDropEntry /\ [][NextDropEntry]_vars

\* A draggable (element 1: click and drag, default policies, silent) and a
\* silent drop target (the last element).  The host gives pointer messages to
\* the draggable; the application calls the target's drop entry points with
\* drag events of the draggable that carry the pointer message.
Draggable(id) ==
    Element(id, Bound({}, FALSE), NilHandler, Bound({}, FALSE), NilHandler, NilHandler)

PointerDrags ==
    {DragEvent(1, "DragMove", t, Point(0, 0), Point(0, 0), m) :
        t \in DragTypes, m \in {n \in MouseMsgs : n.Action = "Motion"}}

InitDragDrop ==
    /\ \E acc \in {a \in AcceptedLists : Len(a) <= 1} :
           els = [e \in Elems |-> IF e = 1 THEN Draggable(1)
                                  ELSE IF e = NumElems THEN DropTarget(NumElems, FALSE, acc)
                                  ELSE Bystander(e)]
    /\ last = NoPass
    /\ pending = <<>>
    /\ inbox = <<>>

NextDragDrop ==
    \/ \E m \in MouseMsgs : HandleMouseMsg(1, m)
    \/ \E k \in DropEntryKinds, d \in PointerDrags : DropCall(NumElems, k, d)

SpecDragDrop == InitDragDrop /\ [][NextDragDrop]_vars

\* Elements with override hooks: a silent hoverable that listens to drop
\* events, with every setting of IsInside, LocalHandler and ExternalHandler and
\* of the custom functions for the enter and hover drop events.
Hooked(r, isInside, localHandler, externalHandler) ==
    [r EXCEPT !.IsInside = isInside, !.LocalHandler = localHandler,
              !.ExternalHandler = externalHandler]

HookElements(id) ==
    {Hooked(Interactable(id, NilHandler, Bound({}, FALSE), NilHandler, NilHandler,
                         NilHandler, NilHandler, NilHandler, Bound(on, FALSE)),
            ins, loc, ext) :
        on \in SUBSET {"OnDropEnterEvent", "OnDropHoverEvent"},
        ins \in BOOLEAN, loc \in BOOLEAN, ext \in BOOLEAN}

InitHooks ==
    /\ \E x \in HookElements(1) :
           els = [e \in Elems |-> IF e = 1 THEN x ELSE Bystander(e)]
    /\ last = NoPass
    /\ pending = <<>>
    /\ inbox = <<>>

\* A panic ends the program: nothing is handled after it.
NextHooks ==
    \/ ~last.panic /\ \E e \in Focus, m \in MouseMsgs : HandleMouseMsg(e, m)
    \/ ~last.panic /\ \E e \in Focus, m \in ExternalMouseMsgs : HandleExternalEvent(e, m)
    \/ ~last.panic /\ \E e \in Focus, ev \in ExtEvents : DeliverEvent(e, ev)

SpecHooks == InitHooks /\ [][NextHooks]_vars

\* Messages outside the enumerated kinds.  MouseAction and the four EventType
\* types are integer types: a value beyond the declared constants is
\* representable and matches no case of a switch.
UnknownMouseMsgs == [Action : {"Unknown"}, X : 0..MaxX, Y : 0..MaxY]

UnknownEvents ==
    {ClickEvent(s, "Unknown", NoMouse) : s \in Sources}
    \cup {HoverEvent(s, "Unknown", NoMouse) : s \in Sources}
    \cup {DragEvent(s, "Unknown", "", Point(0, 0), Point(0, 0), NoMouse) : s \in Sources}
    \cup {DropEvent(s, "Unknown", a, NoDrag) : s \in Sources, a \in BOOLEAN}

\* An element with click, hover and drag bound (default policies) that listens
\* to every category of event.
Listener(id, emit) ==
    Interactable(id, Bound({}, emit), Bound({}, emit), Bound({}, emit), NilHandler,
                 Bound({}, FALSE), Bound({}, FALSE), Bound({}, FALSE), Bound({}, FALSE))

\* A silent element with click, hover and drag bound that listens to click and
\* drag events only.
PartialListener(id) ==
    Interactable(id, Bound({}, FALSE), Bound({}, FALSE), Bound({}, FALSE), NilHandler,
                 Bound({}, FALSE), NilHandler, Bound({}, FALSE), NilHandler)

InitUnknown ==
    /\ \E x \in {Listener(1, TRUE), Listener(1, FALSE), PartialListener(1)} :
           els = [e \in Elems |-> IF e = 1 THEN x ELSE Bystander(e)]
    /\ last = NoPass
    /\ pending = <<>>
    /\ inbox = <<>>

\* Pointer messages of every action, recognised or not, at one cell outside
\* and one cell inside the bounds of the element in focus.
NearMouseMsgs == {m \in MouseMsgs \cup UnknownMouseMsgs : m.X <= 1 /\ m.Y = 0}

\* The element in focus is given recognised and unrecognised pointer messages
\* and events of every kind; the host redelivers what the element broadcasts.
NextUnknown ==
    \/ \E e \in Focus, m \in NearMouseMsgs : HandleMouseMsg(e, m)
    \/ \E e \in Focus, m \in ExternalMouseMsgs : HandleExternalEvent(e, m)
    \/ \E e \in Focus, ev \in ExtEvents \cup UnknownEvents \cup ExternalMouseMsgs :
           DeliverEvent(e, ev)
    \/ \E e \in Focus : HostRedeliver(e)

SpecUnknown == InitUnknown /\ [][NextUnknown]_vars

\* Two active elements among bystanders: element 1 has click, hover and drag
\* bound (silent) and listens to every category of event; the last element is
\* a broadcasting drop target.  The host gives pointer messages to element 1,
\* the application calls the target's drop entry points for drags of element 1,
\* and the host redelivers each broadcast event to either of the two before
\* the next pointer message or drop call is handled.
Active == {1, NumElems}

DragsOfFirst ==
    {DragEvent(1, "DragMove", t, Point(0, 0), Point(0, 0), NoMouse) : t \in DragTypes}

InitMulti ==
    /\ \E acc \in {<<>>, <<"file">>} :
           els = [e \in Elems |-> IF e = 1 THEN Listener(1, FALSE)
                                  ELSE IF e = NumElems THEN DropTarget(NumElems, TRUE, acc)
                                  ELSE Bystander(e)]
    /\ last = NoPass
    /\ pending = <<>>
    /\ inbox = <<>>

NextMulti ==
    \/ pending = <<>> /\ \E m \in NearMouseMsgs \cap MouseMsgs : HandleMouseMsg(1, m)
    \/ pending = <<>> /\ \E k \in DropEntryKinds, d \in DragsOfFirst : DropCall(NumElems, k, d)
    \/ \E e \in Active : HostRedeliver(e)

SpecMulti == InitMulti /\ [][NextMulti]_vars

\* An element with all four capabilities bound (default policies, broadcast
\* on).  The host gives it pointer messages, the application calls its drop
\* entry points while drags pass over it, and the host runs the producers of
\* one call before the next message is handled.
Full(id, acc) ==
    Interactable(id, Bound({}, TRUE), Bound({}, TRUE), Bound({}, TRUE),
                 Handler(TRUE, {}, TRUE, acc),
                 NilHandler, NilHandler, NilHandler, NilHandler)

InitDropLocal ==
    /\ \E acc \in {<<>>, <<"file">>} :
           els = [e \in Elems |-> IF e = 1 THEN Full(1, acc) ELSE Bystander(e)]
    /\ last = NoPass
    /\ pending = <<>>
    /\ inbox = <<>>

NextDropLocal ==
    \/ pending = <<>> /\ \E m \in NearMouseMsgs \cap MouseMsgs : HandleMouseMsg(1, m)
    \/ pending = <<>> /\ \E k \in DropEntryKinds, d \in DragInputs : DropCall(1, k, d)
    \/ HostRedeliver(1)

SpecDropLocal == InitDropLocal /\ [][NextDropLocal]_vars

\* A clickable element: Click bound, with or without custom double-click and
\* right-click functions, with or without broadcast.  The host gives it pointer messages,
\* the application calls its three click entry points, and the host runs the
\* producer of one pass before the next message is handled.
Clicker(id, on, emit) ==
    Element(id, Bound(on, emit), NilHandler, NilHandler, NilHandler, NilHandler)

InitClick ==
    /\ \E on \in SUBSET {"OnDoubleClick", "OnRightClick"}, emit \in BOOLEAN :
           els = [e \in Elems |-> IF e = 1 THEN Clicker(1, on, emit) ELSE Bystander(e)]
    /\ last = NoPass
    /\ pending = <<>>
    /\ inbox = <<>>

NextClick ==
    \/ pending = <<>> /\ \E m \in NearMouseMsgs \cap MouseMsgs : HandleMouseMsg(1, m)
    \/ pending = <<>> /\ \E k \in ClickKinds, m \in {n \in NearMouseMsgs : n.Action = "Press"} :
                             ClickCall(1, k, m)
    \/ HostRedeliver(1)

SpecClick == InitClick /\ [][NextClick]_vars

\* The same element twice: once with EmitMessages on in all four capabilities
\* (element 1) and once with it off (the last element, same zone id).  Both
\* are given the same pointer messages and the same drop calls; the host runs
\* the producers of one step before the next.
Silent(r) ==
    [r EXCEPT !.Click.EmitMessages = FALSE, !.Hover.EmitMessages = FALSE,
              !.Drag.EmitMessages = FALSE, !.Drop.EmitMessages = FALSE]

InitTwin ==
    /\ \E acc \in {<<>>, <<"file">>} :
           els = [e \in Elems |-> IF e = 1 THEN Full(1, acc)
                                  ELSE IF e = NumElems THEN Silent(Full(1, acc))
                                  ELSE Bystander(e)]
    /\ last = NoPass
    /\ pending = <<>>
    /\ inbox = <<>>

NextTwin ==
    \/ pending = <<>> /\ \E m \in NearMouseMsgs \cap MouseMsgs : UpdateBoth(1, NumElems, m)
    \/ pending = <<>> /\ \E k \in DropKinds, d \in DragInputs : DropBoth(1, NumElems, k, d)
    \/ HostRedeliver(1)

SpecTwin == InitTwin /\ [][NextTwin]_vars

\* A draggable element without the click capability: Drag bound (default or
\* application policies, with or without broadcast), Hover bound or not, Click
\* nil.  The host gives it pointer messages of every action and redelivers
\* what it broadcasts.
DragOnly(id, hover, on, emit) ==
    Element(id, NilHandler, hover, Bound(on, emit), NilHandler, NilHandler)

InitDragOnly ==
    /\ \E hover \in {NilHandler, Bound({}, TRUE)},
          on \in {{}, {"OnDragStart", "OnDragMove", "OnDragEnd"}}, emit \in BOOLEAN :
           els = [e \in Elems |-> IF e = 1 THEN DragOnly(1, hover, on, emit) ELSE Bystander(e)]
    /\ last = NoPass
    /\ pending = <<>>
    /\ inbox = <<>>

NextDragOnly ==
    \/ \E m \in NearMouseMsgs : HandleMouseMsg(1, m)
    \/ HostRedeliver(1)

SpecDragOnly == InitDragOnly /\ [][NextDragOnly]_vars

\* Two elements with records of their own: element 1 has click, hover and drag
\* bound (default policies) or no capability at all, the last element has
\* click, hover and drag bound and occupies column 0 (zone id 0), next to
\* element 1.  The host gives pointer messages to each
\* through its own dispatcher, and to the last element through the dispatcher
\* of element 1; it runs the producers of one pass before the next message.
Bare(id) ==
    Interactable(id, NilHandler, NilHandler, NilHandler, NilHandler,
                 NilHandler, NilHandler, NilHandler, NilHandler)

InitShared ==
    /\ \E x \in {Element(1, Bound({}, e), Bound({}, e), Bound({}, e), NilHandler, NilHandler) :
                    e \in BOOLEAN} \cup {Bare(1)} :
           els = [e \in Elems |->
                     IF e = 1 THEN x
                     ELSE IF e = NumElems
                          THEN Element(0, Bound({}, TRUE), Bound({}, TRUE), Bound({}, TRUE),
                                       NilHandler, NilHandler)
                          ELSE Bystander(e)]
    /\ last = NoPass
    /\ pending = <<>>
    /\ inbox = <<>>

NextShared ==
    \/ pending = <<>> /\ \E m \in NearMouseMsgs : HandleMouseMsgOf(1, NumElems, m)
    \/ pending = <<>> /\ \E e \in Active, m \in NearMouseMsgs : HandleMouseMsg(e, m)
    \/ HostRedeliver(NumElems)

SpecShared == InitShared /\ [][NextShared]_vars

\* ---------------------------------------------------------------- properties: hover
\* The event types of the producers of one category in a returned batch, in order.
KindsOf(cmds, cat) ==
    LET sel == SelectSeq(cmds, LAMBDA p : p.cat = cat)
    IN  [k \in 1..Len(sel) |-> sel[k].EventType]

CallNames(calls) == [k \in 1..Len(calls) |-> calls[k].h]

Called(calls, name) == \E k \in 1..Len(calls) : calls[k].h = name

\* Which bounds test the dispatcher used for the element's record r.
InsideOf(r, mouseMsg) ==
    IF r.IsInside THEN CustomIsInside(r, mouseMsg) ELSE DefaultIsInside(r, mouseMsg)

\* The last pass was a pointer message with the given action, routed by the
\* default local handler of its element.
LocalPass(action) ==
    /\ last.op = "local"
    /\ last.msg.Action = action
    /\ ~els[last.elem].LocalHandler

\* The element of the last pass has hover bound with default policies and broadcast on.
HoverDefaultEmit ==
    LET h == els[last.elem].Hover
    IN  h.set /\ h.on = {} /\ h.EmitMessages

C1_Case ==
    /\ LocalPass("Motion")
    /\ HoverDefaultEmit
    /\ ~last.pre.IsHovered
    /\ InsideOf(els[last.elem], last.msg)

\* C1: a move delivered while isHovered=false and inside bounds (hover default,
\* broadcast on) leaves isHovered=true and returns exactly one enter producer
\* followed by exactly one hover producer, and no leave producer.
C1_EnterThenHover ==
    C1_Case =>
        /\ els[last.elem].IsHovered
        /\ KindsOf(last.cmds, "hover") = <<"MouseEnter", "MouseHover">>

C1_Witness == C1_Case /\ els[last.elem].IsHovered /\ Len(last.cmds) >= 2

C2_Case ==
    /\ LocalPass("Motion")
    /\ HoverDefaultEmit
    /\ last.pre.IsHovered
    /\ ~InsideOf(els[last.elem], last.msg)

\* C2: a move delivered while isHovered=true and outside bounds (hover default,
\* broadcast on) leaves isHovered=false and returns exactly one leave producer
\* and no enter or hover producer.
C2_LeaveOnly ==
    C2_Case =>
        /\ ~els[last.elem].IsHovered
        /\ KindsOf(last.cmds, "hover") = <<"MouseLeave">>

C2_Witness == C2_Case /\ ~els[last.elem].IsHovered /\ last.cmds # <<>>

\* This step delivers an inside-bounds move to an element that is hovered
\* (hover bound, default policies).
C3_Step ==
    /\ last'.op = "local"
    /\ last'.msg.Action = "Motion"
    /\ ~els[last'.elem].LocalHandler
    /\ els[last'.elem].Hover.set
    /\ els[last'.elem].Hover.on = {}
    /\ els[last'.elem].IsHovered
    /\ InsideOf(els[last'.elem], last'.msg)

\* C3: hover idempotence.  An inside-bounds move delivered while isHovered is
\* already true keeps it true and emits only the repeat hover event (never an
\* enter or a leave); delivering the identical move once more leaves every
\* record as the previous delivery left it.
C3_HoverIdempotent ==
    [][C3_Step =>
          /\ els'[last'.elem].IsHovered
          /\ KindsOf(last'.cmds, "hover") =
                 (IF els[last'.elem].Hover.EmitMessages THEN <<"MouseHover">> ELSE <<>>)
          /\ ~Called(last'.calls, "HandleMouseEnter")
          /\ (last.op = "local" /\ last.msg = last'.msg /\ last.elem = last'.elem
                => els' = els)]_vars

C3_Witness ==
    /\ LocalPass("Motion")
    /\ last.pre.IsHovered
    /\ els[last.elem].IsHovered
    /\ last.pre = Flags(els[last.elem])
    /\ KindsOf(last.cmds, "hover") = <<"MouseHover">>

\* C10: under default policies isHovered goes from false to true only in a pass
\* that invokes the enter handler of that element, from true to false only in a
\* pass that invokes its leave handler, and whenever the dispatcher invokes the
\* repeat hover handler isHovered is already true at that moment.
C10_HoverSequence ==
    [][\A e \in Elems :
          (els[e].Hover.on = {} /\ ~els[e].LocalHandler) =>
              /\ (~els[e].IsHovered /\ els'[e].IsHovered
                    => last'.elem = e /\ Called(last'.calls, "HandleMouseEnter"))
              /\ (els[e].IsHovered /\ ~els'[e].IsHovered
                    => last'.elem = e /\ Called(last'.calls, "HandleMouseLeave"))
              /\ (last'.elem = e =>
                    \A k \in 1..Len(last'.calls) :
                        last'.calls[k].h = "HandleMouseHover"
                            => last'.calls[k].at.IsHovered)]_vars

C10_Witness ==
    /\ last.op = "local"
    /\ CallNames(last.calls) = <<"DefaultLocalHandler", "HandleMouseEnter", "DefaultMouseEnter",
                                 "HandleMouseHover", "DefaultMouseHover">>
    /\ ~last.calls[2].at.IsHovered
    /\ last.calls[4].at.IsHovered

\* ---------------------------------------------------------------- properties: press and release
C4_Case ==
    /\ LocalPass("Press")
    /\ InsideOf(els[last.elem], last.msg)
    /\ els[last.elem].Click.set /\ els[last.elem].Click.on = {}
    /\ els[last.elem].Drag.set /\ els[last.elem].Drag.on = {}

FirstCall(calls, name) == CHOOSE k \in 1..Len(calls) : calls[k].h = name

\* C4: one press inside bounds with click and drag bound (default policies)
\* ends with isSelected, isDragging, dragOrigin = the press coordinates and
\* dragOffset = (0,0), the click handler having run before drag-start.
C4_PressClicksThenDrags ==
    C4_Case =>
        /\ els[last.elem].IsSelected
        /\ els[last.elem].IsDragging
        /\ els[last.elem].DragOrigin = Point(last.msg.X, last.msg.Y)
        /\ els[last.elem].DragOffset = Point(0, 0)
        /\ Called(last.calls, "HandleClick")
        /\ Called(last.calls, "HandleDragStart")
        /\ FirstCall(last.calls, "HandleClick") < FirstCall(last.calls, "HandleDragStart")

\* a press that moves the origin away from a previous drag's origin and offset
C4_Witness ==
    /\ C4_Case
    /\ els[last.elem].DragOrigin # Point(0, 0)
    /\ last.pre.DragOffset # Point(0, 0)
    /\ els[last.elem].DragOffset = Point(0, 0)

C5_Case ==
    /\ LocalPass("Release")
    /\ els[last.elem].Drag.set
    /\ els[last.elem].Drag.on \in {{}, {"OnDragEnd"}}
    /\ last.pre.IsDragging

\* C5: a release delivered while isDragging=true with drag bound ends with
\* isDragging=false, inside or outside bounds, with the default drag-end policy
\* or with a custom one that does not touch the flag.
C5_ReleaseEndsDrag ==
    C5_Case => ~els[last.elem].IsDragging /\ Called(last.calls, "HandleDragEnd")

C5_Witness ==
    /\ C5_Case
    /\ Called(last.calls, "OnDragEnd")
    /\ ~InsideOf(els[last.elem], last.msg)
    /\ ~els[last.elem].IsDragging

C5_WitnessDefault ==
    /\ C5_Case
    /\ Called(last.calls, "DefaultDragEnd")
    /\ InsideOf(els[last.elem], last.msg)

\* ---------------------------------------------------------------- properties: drop
Accepts(h, dragEvent) ==
    dragEvent.DragType \in {h.AcceptedDropTypes[k] : k \in 1..Len(h.AcceptedDropTypes)}

CountCalls(calls, name) == Cardinality({k \in 1..Len(calls) : calls[k].h = name})

\* The last pass was the given drop entry point, on a Drop handler with no
\* custom function.
DropPass(kinds) ==
    /\ last.op \in kinds
    /\ els[last.elem].Drop.set
    /\ els[last.elem].Drop.on = {}

\* C6: the default acceptance predicate is membership of dragType in
\* acceptedTypes: after a default drop-enter or drop-hover isValidDrop holds
\* exactly when the drag's type occurs anywhere in the list (never for the
\* empty list), whatever the flags were before, and no other field than
\* isBelowDrop and isValidDrop differs from before the call.
C6_AcceptableIsMembership ==
    DropPass({"DropEnter", "DropHover"}) =>
        LET h == els[last.elem].Drop
        IN  /\ els[last.elem].IsValidDrop = Accepts(h, last.msg)
            /\ (h.AcceptedDropTypes = <<>> => ~els[last.elem].IsValidDrop)
            /\ Flags(els[last.elem]) =
                   [last.pre EXCEPT !.IsBelowDrop = TRUE,
                                    !.IsValidDrop = Accepts(h, last.msg)]

C6_Witness ==
    /\ DropPass({"DropEnter", "DropHover"})
    /\ Len(els[last.elem].Drop.AcceptedDropTypes) = 2
    /\ els[last.elem].Drop.AcceptedDropTypes[1] # last.msg.DragType
    /\ els[last.elem].Drop.AcceptedDropTypes[2] = last.msg.DragType
    /\ els[last.elem].IsValidDrop

\* C7: a default drop-release dispatches exactly one follow-on handler in the
\* same pass, accept (never deny) when the drag is acceptable and deny (never
\* accept) when it is not, and ends with isBelowDrop=false and isValidDrop=false.
C7_ReleaseDispatchesOne ==
    DropPass({"DropRelease"}) =>
        LET acc == Accepts(els[last.elem].Drop, last.msg)
        IN  /\ CountCalls(last.calls, "HandleDropAccept") = (IF acc THEN 1 ELSE 0)
            /\ CountCalls(last.calls, "HandleDropDeny") = (IF acc THEN 0 ELSE 1)
            /\ ~els[last.elem].IsBelowDrop
            /\ ~els[last.elem].IsValidDrop

C7_Witness ==
    /\ DropPass({"DropRelease"})
    /\ last.pre.IsBelowDrop
    /\ ~last.pre.IsValidDrop
    /\ Accepts(els[last.elem].Drop, last.msg)
    /\ Called(last.calls, "DefaultDropAccept")
    /\ ~els[last.elem].IsBelowDrop

InboxKinds == [k \in 1..Len(inbox) |-> inbox[k].EventType]

\* The target accepts exactly ["file"], broadcasts, has default policies, and
\* the host has run every producer it was given.
FileTargetDone ==
    /\ els[1].Drop.set
    /\ els[1].Drop.on = {}
    /\ els[1].Drop.EmitMessages
    /\ els[1].Drop.AcceptedDropTypes = <<"file">>
    /\ pending = <<>>

\* C8: for the target accepting ["file"], a "file" drag that enters and then
\* releases yields the messages DropEnter(acceptable), DropRelease(acceptable),
\* DropAccept(acceptable) in that order, and ends with isBelowDrop=false and
\* isValidDrop=false.
C8_FileScenario ==
    (/\ FileTargetDone
     /\ InboxKinds = <<"DropEnter", "DropRelease", "DropAccept">>
     /\ \A k \in 1..Len(inbox) : inbox[k].DragEvent.DragType = "file")
    => /\ \A k \in 1..Len(inbox) : inbox[k].Acceptable
       /\ ~els[1].IsBelowDrop
       /\ ~els[1].IsValidDrop

C9_Scenario ==
    /\ FileTargetDone
    /\ Len(inbox) = 3
    /\ inbox[1].EventType = "DropEnter"
    /\ inbox[2].EventType = "DropRelease"
    /\ inbox[1].DragEvent.DragType = "folder"
    /\ inbox[2].DragEvent.DragType = "folder"

\* C9: for the same target, a "folder" drag that enters and then releases
\* yields DropEnter, DropRelease, DropDeny in that order, each with
\* acceptable=false, and never a DropAccept.
C9_FolderScenario ==
    C9_Scenario =>
        /\ InboxKinds = <<"DropEnter", "DropRelease", "DropDeny">>
        /\ \A k \in 1..Len(inbox) :
              /\ ~inbox[k].Acceptable
              /\ inbox[k].EventType # "DropAccept"
              /\ inbox[k].DragEvent.DragType = "folder"
              /\ inbox[k].ID = els[1].ID

C9_Witness ==
    /\ C9_Scenario
    /\ inbox[3].EventType = "DropDeny"
    /\ ~inbox[3].Acceptable
    /\ ~els[1].IsBelowDrop

\* ---------------------------------------------------------------- properties: drag sequence
\* This step dispatches the named drag handler for element e.
Dispatched(e, name) == last'.elem = e /\ Called(last'.calls, name)

\* C11: isDragging is false initially, turns true only in a pass of a press
\* that dispatches drag-start, turns false only in a pass that dispatches
\* drag-end, is true after every drag-start and false after every drag-end.
C11_DraggingBetweenStartAndEnd ==
    /\ \A e \in Elems : ~els[e].IsDragging
    /\ [][\A e \in Elems :
             /\ (~els[e].IsDragging /\ els'[e].IsDragging
                   => /\ Dispatched(e, "HandleDragStart")
                      /\ last'.op = "local"
                      /\ last'.msg.Action = "Press")
             /\ (els[e].IsDragging /\ ~els'[e].IsDragging
                   => Dispatched(e, "HandleDragEnd"))
             /\ (Dispatched(e, "HandleDragStart") => els'[e].IsDragging)
             /\ (Dispatched(e, "HandleDragEnd") => ~els'[e].IsDragging)]_vars

\* a drag that was started, moved and then ended by a release
C11_Witness ==
    /\ last.op = "local"
    /\ Called(last.calls, "HandleDragEnd")
    /\ last.pre.IsDragging
    /\ last.pre.DragOffset # Point(0, 0)
    /\ ~els[last.elem].IsDragging

\* C12: drag-start is never dispatched for an element whose isDragging is
\* already true, so dragOrigin is set once per drag sequence.
C12_OneOpenDrag ==
    [][\A e \in Elems :
          Dispatched(e, "HandleDragStart") => ~els[e].IsDragging]_vars

\* ---------------------------------------------------------------- properties: drop flags
\* C13: with default policies, after a local drop-enter or drop-hover
\* isBelowDrop is true and isValidDrop equals the acceptance predicate for that
\* drag; after a local drop-leave, drop-accept or drop-deny both are false,
\* whatever they were before.
C13_DropFlags ==
    LET r == els[last.elem]
    IN  /\ DropPass({"DropEnter", "DropHover"}) =>
               /\ r.IsBelowDrop
               /\ r.IsValidDrop = HandleIsAcceptable(r.Drop, last.msg)
        /\ DropPass({"DropLeave", "DropAccept", "DropDeny"}) =>
               /\ ~r.IsBelowDrop
               /\ ~r.IsValidDrop

\* a deny called on a target that was below a valid drop
C13_Witness ==
    /\ DropPass({"DropDeny"})
    /\ last.pre.IsBelowDrop
    /\ last.pre.IsValidDrop
    /\ ~els[last.elem].IsBelowDrop
    /\ ~els[last.elem].IsValidDrop

\* The pointer message of the last pass: the message itself, or the one the
\* drag event of the pass carries.
PointerMsg ==
    IF "X" \in DOMAIN last.msg THEN last.msg
    ELSE IF "MouseMsg" \in DOMAIN last.msg THEN last.msg.MouseMsg
    ELSE last.msg.DragEvent.MouseMsg

\* C14: an element's isBelowDrop is true only while some element is dragging
\* and the pointer is within that element's bounds.
C14_BelowOnlyDuringDrag ==
    \A e \in Elems :
        els[e].IsBelowDrop =>
            /\ \E s \in Elems : els[s].IsDragging
            /\ DefaultIsInside(els[e], PointerMsg)

\* The last pass was a default drop-leave on a broadcasting target that was a
\* valid drop target when the leave was handled.
C15_Case ==
    /\ DropPass({"DropLeave"})
    /\ els[last.elem].Drop.EmitMessages
    /\ last.pre.IsValidDrop

\* C15: the event obtained by invoking the producer returned by the default
\* drop-leave carries acceptable = the value isValidDrop had before the leave
\* reset it, while the state after the call has isValidDrop=false.
C15_LeaveCarriesPriorValidity ==
    C15_Case =>
        /\ Len(last.cmds) = 1
        /\ Invoke(last.cmds[1], els[last.elem]).EventType = "DropLeave"
        /\ Invoke(last.cmds[1], els[last.elem]).Acceptable = last.pre.IsValidDrop
        /\ ~els[last.elem].IsValidDrop

\* ---------------------------------------------------------------- properties: external drop events
\* The last pass delivered a drop event of one of the given kinds to an element
\* whose DropEvent slot is bound and has no custom function.
DropEventPass(kinds) ==
    /\ last.op \in {"event", "redeliver"}
    /\ TypeOf(last.msg) = "drop"
    /\ last.msg.EventType \in kinds
    /\ els[last.elem].DropEvent.set
    /\ els[last.elem].DropEvent.on = {}

\* C16: with no custom overrides, an external drop event of kind enter or
\* hover sets isAboveDrop=true, sets isValidDrop to the event's acceptable
\* flag and leaves isBelowDrop unchanged.
C16_EnterHoverEvent ==
    DropEventPass({"DropEnter", "DropHover"}) =>
        /\ els[last.elem].IsAboveDrop
        /\ els[last.elem].IsValidDrop = last.msg.Acceptable
        /\ els[last.elem].IsBelowDrop = last.pre.IsBelowDrop

\* C17: with no custom overrides, an external drop event of kind leave,
\* release, accept or deny ends with isAboveDrop=false and isValidDrop=false,
\* whatever the event's acceptable flag is.
C17_ClosingEvent ==
    DropEventPass({"DropLeave", "DropRelease", "DropAccept", "DropDeny"}) =>
        /\ ~els[last.elem].IsAboveDrop
        /\ ~els[last.elem].IsValidDrop

\* ---------------------------------------------------------------- properties: override hooks
\* C18: HandleExternalEvent delegates entirely to ExternalHandler when that
\* hook is set and uses the default routing when it is not, for every setting
\* of LocalHandler.
C18_ExternalHook ==
    last.op = "external" =>
        IF els[last.elem].ExternalHandler
        THEN CallNames(last.calls) = <<"ExternalHandler">> /\ ~last.panic
        ELSE /\ ~Called(last.calls, "ExternalHandler")
             /\ last.calls[1].h = "DefaultExternalHandler"

\* C19: HandleMouseMsg delegates the pointer message entirely to LocalHandler
\* when that hook is set (no capability handler runs, the dispatcher changes
\* no flag and returns what the hook returns); otherwise it uses the default
\* routing.
C19_LocalHook ==
    last.op = "local" =>
        IF els[last.elem].LocalHandler
        THEN /\ CallNames(last.calls) = <<"LocalHandler">>
             /\ Flags(els[last.elem]) = last.pre
             /\ last.cmds = <<>>
             /\ ~last.panic
        ELSE /\ ~Called(last.calls, "LocalHandler")
             /\ last.calls[1].h = "DefaultLocalHandler"

\* a move inside the bounds of a hoverable whose LocalHandler is set
C19_Witness ==
    /\ last.op = "local"
    /\ els[last.elem].LocalHandler
    /\ ~els[last.elem].ExternalHandler
    /\ els[last.elem].Hover.set
    /\ last.msg.Action = "Motion"
    /\ InsideOf(els[last.elem], last.msg)
    /\ CallNames(last.calls) = <<"LocalHandler">>
    /\ ~els[last.elem].IsHovered

\* C20: no configuration of unset slots, hooks or custom handlers makes a
\* dispatch fail: no pass calls an unset function.
C20_NoDispatchFails == ~last.panic

\* ---------------------------------------------------------------- properties: fast paths
\* The record has none of click, hover, drag, drop bound.
NoCapability(r) == ~r.Click.set /\ ~r.Hover.set /\ ~r.Drag.set /\ ~r.Drop.set

\* The record has none of the four event-aware slots bound.
NoEventSlot(r) ==
    ~r.ClickEvent.set /\ ~r.HoverEvent.set /\ ~r.DragEvent.set /\ ~r.DropEvent.set

\* C21: with none of click, hover, drag, drop bound, a pointer message leaves
\* every interaction field as it was, runs no capability handler and returns no
\* command; with none of the four event-aware slots bound, a semantic event
\* does the same.
C21_FastPaths ==
    LET r == els[last.elem]
    IN  /\ (last.op = "local" /\ ~r.LocalHandler /\ NoCapability(r)) =>
               /\ Flags(r) = last.pre
               /\ last.cmds = <<>>
               /\ CallNames(last.calls) = <<"DefaultLocalHandler">>
        /\ (last.op \in {"event", "redeliver"} /\ NoEventSlot(r)) =>
               /\ Flags(r) = last.pre
               /\ last.cmds = <<>>
               /\ CallNames(last.calls) = <<"DefaultExternalHandler">>

\* a press inside the bounds of a pure listener that is above a valid drop
C21_Witness ==
    /\ last.op = "local"
    /\ NoCapability(els[last.elem])
    /\ last.msg.Action = "Press"
    /\ InsideOf(els[last.elem], last.msg)
    /\ last.pre.IsAboveDrop
    /\ last.pre.IsValidDrop
    /\ Flags(els[last.elem]) = last.pre

\* a click event delivered to a selected, hovered element that listens to nothing
C21_WitnessEvent ==
    /\ last.op = "event"
    /\ NoEventSlot(els[last.elem])
    /\ TypeOf(last.msg) = "click"
    /\ last.pre.IsSelected
    /\ last.pre.IsHovered
    /\ Flags(els[last.elem]) = last.pre

\* ---------------------------------------------------------------- properties: unrecognised messages
KindsOfCategory(cat) ==
    CASE cat = "click" -> ClickKinds
      [] cat = "hover" -> HoverKinds
      [] cat = "drag" -> DragKinds
      [] cat = "drop" -> DropKinds
      [] OTHER -> {}

\* The last pass handled a pointer message whose action is not move, press or
\* release, or gave the event router a message that is not one of the four
\* events or an event whose kind is outside its category.
Unrecognised ==
    \/ last.op = "local" /\ last.msg.Action \notin MouseActions
    \/ /\ last.op \in {"external", "event", "redeliver"}
       /\ \/ TypeOf(last.msg) = "mouse"
          \/ last.msg.EventType \notin KindsOfCategory(TypeOf(last.msg))

\* C22: an unrecognised pointer action or event kind, and a message that is
\* none of the four events, leaves every interaction field unchanged, runs no
\* handler and returns no command.
C22_UnrecognisedIgnored ==
    Unrecognised =>
        /\ Flags(els[last.elem]) = last.pre
        /\ last.cmds = <<>>
        /\ Len(last.calls) = 1
        /\ ~last.panic

\* a drop event of unknown kind given to a hovered, dragging listener above a valid drop
C22_Witness ==
    /\ Unrecognised
    /\ last.op = "event"
    /\ TypeOf(last.msg) = "drop"
    /\ last.pre.IsAboveDrop
    /\ last.pre.IsValidDrop
    /\ last.pre.IsHovered
    /\ last.pre.IsDragging
    /\ Flags(els[last.elem]) = last.pre

\* a pointer message of unknown action inside the bounds of a hovered, dragging element
C22_WitnessPointer ==
    /\ Unrecognised
    /\ last.op = "local"
    /\ InsideOf(els[last.elem], last.msg)
    /\ els[last.elem].Hover.EmitMessages
    /\ last.pre.IsHovered
    /\ last.pre.IsDragging
    /\ Flags(els[last.elem]) = last.pre

\* ---------------------------------------------------------------- properties: drag move
\* The last pass was a move handled by the default local handler of an element
\* that was dragging, with drag bound and the default drag-move policy.
C23_Case ==
    /\ LocalPass("Motion")
    /\ els[last.elem].Drag.set
    /\ "OnDragMove" \notin els[last.elem].Drag.on
    /\ last.pre.IsDragging

\* C23: while a drag is in progress every move fires drag-move, inside or
\* outside the bounds, and afterwards isDragging is still true, dragOrigin is
\* unchanged and dragOffset = move position - dragOrigin, componentwise.
C23_DragMove ==
    C23_Case =>
        LET r == els[last.elem]
        IN  /\ CountCalls(last.calls, "HandleDragMove") = 1
            /\ r.IsDragging
            /\ r.DragOrigin = last.pre.DragOrigin
            /\ r.DragOffset = Point(last.msg.X - r.DragOrigin.X, last.msg.Y - r.DragOrigin.Y)

\* a move outside the bounds that changes the offset of an open drag
C23_Witness ==
    /\ C23_Case
    /\ ~InsideOf(els[last.elem], last.msg)
    /\ els[last.elem].DragOffset # last.pre.DragOffset
    /\ els[last.elem].DragOffset # Point(0, 0)
    /\ els[last.elem].IsDragging

\* ---------------------------------------------------------------- properties: order of emission
\* The event kind a default policy broadcasts, by the policy's name.
KindOfDefault(name) ==
    CASE name = "DefaultClick" -> "Click"
      [] name = "DefaultMouseEnter" -> "MouseEnter"
      [] name = "DefaultMouseHover" -> "MouseHover"
      [] name = "DefaultMouseLeave" -> "MouseLeave"
      [] name = "DefaultDragStart" -> "DragStart"
      [] name = "DefaultDragMove" -> "DragMove"
      [] name = "DefaultDragEnd" -> "DragEnd"
      [] OTHER -> ""

\* The kinds broadcast by the default policies of a pass, in the order the
\* policies ran, for an element whose bound capabilities all broadcast.
InvokedKinds(calls) ==
    LET sel == SelectSeq(calls, LAMBDA k : KindOfDefault(k.h) # "")
    IN  [k \in 1..Len(sel) |-> KindOfDefault(sel[k].h)]

AllBroadcast(r) ==
    /\ r.Click.set => r.Click.EmitMessages
    /\ r.Hover.set => r.Hover.EmitMessages
    /\ r.Drag.set => r.Drag.EmitMessages

\* C24: the batch returned by one pass of the local handler lists the
\* producers in the order their handlers were invoked: on a move every hover
\* producer precedes the drag-move producer, on a press the click producer
\* precedes the drag-start producer.
C24_EmissionOrder ==
    (last.op = "local" /\ ~els[last.elem].LocalHandler) =>
        /\ \A j, k \in 1..Len(last.cmds) :
               /\ (last.cmds[j].cat = "hover" /\ last.cmds[k].EventType = "DragMove") => j < k
               /\ (last.cmds[j].cat = "click" /\ last.cmds[k].EventType = "DragStart") => j < k
        /\ AllBroadcast(els[last.elem]) =>
               [k \in 1..Len(last.cmds) |-> last.cmds[k].EventType] = InvokedKinds(last.calls)

\* a move into the bounds during a drag: enter, hover, drag-move
C24_Witness ==
    /\ LocalPass("Motion")
    /\ [k \in 1..Len(last.cmds) |-> last.cmds[k].EventType] =
           <<"MouseEnter", "MouseHover", "DragMove">>

\* a press inside the bounds: click, drag-start
C24_WitnessPress ==
    /\ LocalPass("Press")
    /\ [k \in 1..Len(last.cmds) |-> last.cmds[k].EventType] = <<"Click", "DragStart">>

\* ---------------------------------------------------------------- properties: open sequences
\* C25: an open drag is closed only by a release message given to its element,
\* and an open hover only by a move outside the bounds given to its element:
\* no move, press, pointer message given to the event router, semantic event of
\* any kind or host redelivery turns isDragging or isHovered from true to false.
C25_ClosedOnlyByInput ==
    [][\A e \in Elems :
          /\ (els[e].IsDragging /\ ~els'[e].IsDragging)
                => /\ last'.op = "local"
                   /\ last'.elem = e
                   /\ last'.msg.Action = "Release"
          /\ (els[e].IsHovered /\ ~els'[e].IsHovered)
                => /\ last'.op = "local"
                   /\ last'.elem = e
                   /\ last'.msg.Action = "Motion"
                   /\ ~InsideOf(els[e], last'.msg)]_vars

\* a drag and a hover still open after a drag-end event of another element
C25_Witness ==
    /\ last.op = "event"
    /\ TypeOf(last.msg) = "drag"
    /\ last.msg.EventType = "DragEnd"
    /\ last.msg.ID # last.elem
    /\ last.pre.IsDragging
    /\ last.pre.IsHovered
    /\ els[last.elem].IsDragging
    /\ els[last.elem].IsHovered

\* a press outside the bounds during an open drag
C25_WitnessPress ==
    /\ LocalPass("Press")
    /\ ~InsideOf(els[last.elem], last.msg)
    /\ last.pre.IsDragging
    /\ els[last.elem].IsDragging

\* ---------------------------------------------------------------- properties: isolation
\* C26: a pass that handles a pointer message, a drop call or a redelivered
\* event for one element leaves the record of every other element as it was;
\* an element's record changes only in a pass that delivers a message to it.
C26_Isolation ==
    [][\A e \in Elems : els'[e] # els[e] => last'.elem = e /\ last'.op # "host"]_vars

\* the target's enter event, redelivered to element 1, changes element 1 while
\* the target stays below the drop
C26_Witness ==
    /\ last.op = "redeliver"
    /\ last.elem = 1
    /\ last.msg.ID = NumElems
    /\ Flags(els[1]) # last.pre
    /\ els[1].IsAboveDrop
    /\ els[1].IsDragging
    /\ els[NumElems].IsBelowDrop
    /\ ~els[NumElems].IsAboveDrop

\* ---------------------------------------------------------------- properties: accept and deny
FollowOn(kind) == kind \in {"DropAccept", "DropDeny"}

\* C27: accept and deny run only as the follow-on of a drop-release: a pointer
\* message given to the local handler invokes neither and returns no drop
\* producer; a pass invokes accept or deny only after the default release of
\* the same pass; and every DropAccept or DropDeny producer of a batch is
\* preceded in that batch by the DropRelease producer of the same drag.
C27_FollowOnOnly ==
    /\ last.op = "local" =>
           /\ ~Called(last.calls, "HandleDropAccept")
           /\ ~Called(last.calls, "HandleDropDeny")
           /\ KindsOf(last.cmds, "drop") = <<>>
    /\ \A k \in 1..Len(last.calls) :
           last.calls[k].h \in {"HandleDropAccept", "HandleDropDeny"} =>
               \E j \in 1..(k - 1) : last.calls[j].h = "DefaultDropRelease"
    /\ \A k \in 1..Len(last.cmds) :
           FollowOn(last.cmds[k].EventType) =>
               \E j \in 1..(k - 1) :
                   /\ last.cmds[j].EventType = "DropRelease"
                   /\ last.cmds[j].DragEvent = last.cmds[k].DragEvent
                   /\ last.cmds[j].owner = last.cmds[k].owner

\* a release of an acceptable drag over a selected, dragging element: the
\* batch is the release producer followed by the accept producer
C27_Witness ==
    /\ last.op = "DropRelease"
    /\ last.pre.IsDragging
    /\ last.pre.IsSelected
    /\ [k \in 1..Len(last.cmds) |-> last.cmds[k].EventType] = <<"DropRelease", "DropAccept">>
    /\ last.cmds[1].DragEvent = last.msg

\* ---------------------------------------------------------------- properties: event routing
\* The event-aware entry point for each event kind, and the functions that
\* entry point may run (its custom function, its default policy).
EventHandlerName ==
    [Click |-> "HandleClickEvent", DoubleClick |-> "HandleDoubleClickEvent",
     RightClick |-> "HandleRightClickEvent",
     MouseEnter |-> "HandleMouseEnterEvent", MouseHover |-> "HandleMouseHoverEvent",
     MouseLeave |-> "HandleMouseLeaveEvent",
     DragStart |-> "HandleDragStartEvent", DragMove |-> "HandleDragMoveEvent",
     DragEnd |-> "HandleDragEndEvent",
     DropEnter |-> "HandleDropEnterEvent", DropHover |-> "HandleDropHoverEvent",
     DropLeave |-> "HandleDropLeaveEvent", DropRelease |-> "HandleDropReleaseEvent",
     DropAccept |-> "HandleDropAcceptEvent", DropDeny |-> "HandleDropDenyEvent"]

EventHandlerInner ==
    [Click |-> {"OnClickEvent"}, DoubleClick |-> {"OnDoubleClickEvent"},
     RightClick |-> {"OnRightClickEvent"},
     MouseEnter |-> {"OnMouseEnterEvent"}, MouseHover |-> {"OnMouseHoverEvent"},
     MouseLeave |-> {"OnMouseLeaveEvent"},
     DragStart |-> {"OnDragStartEvent"}, DragMove |-> {"OnDragMoveEvent"},
     DragEnd |-> {"OnDragEndEvent"},
     DropEnter |-> {"OnDropEnterEvent", "DefaultDropEnterEvent"},
     DropHover |-> {"OnDropHoverEvent", "DefaultDropHoverEvent"},
     DropLeave |-> {"OnDropLeaveEvent", "DefaultDropLeaveEvent"},
     DropRelease |-> {"OnDropReleaseEvent", "DefaultDropReleaseEvent"},
     DropAccept |-> {"OnDropAcceptEvent", "DefaultDropAcceptEvent"},
     DropDeny |-> {"OnDropDenyEvent", "DefaultDropDenyEvent"}]

EventSlot(r, cat) ==
    CASE cat = "click" -> r.ClickEvent
      [] cat = "hover" -> r.HoverEvent
      [] cat = "drag" -> r.DragEvent
      [] cat = "drop" -> r.DropEvent

\* The last pass gave the event router one of the four events, of a kind of
\* its category, on an element that listens to at least one category.
RoutedPass ==
    /\ last.op \in {"event", "redeliver"}
    /\ TypeOf(last.msg) \in {"click", "hover", "drag", "drop"}
    /\ last.msg.EventType \in KindsOfCategory(TypeOf(last.msg))
    /\ ~NoEventSlot(els[last.elem])

\* C28: the router hands a semantic event to exactly one event-aware handler,
\* the one of the event's category and kind on the slot bound for that
\* category, and runs nothing of another category or kind; when the slot of
\* the event's category is unbound it runs no handler, changes no flag and
\* returns no command.
C28_Routing ==
    RoutedPass =>
        LET r == els[last.elem]
            kind == last.msg.EventType
        IN  IF EventSlot(r, TypeOf(last.msg)).set
            THEN /\ Len(last.calls) >= 2
                 /\ last.calls[1].h = "DefaultExternalHandler"
                 /\ last.calls[2].h = EventHandlerName[kind]
                 /\ \A k \in 3..Len(last.calls) : last.calls[k].h \in EventHandlerInner[kind]
            ELSE /\ CallNames(last.calls) = <<"DefaultExternalHandler">>
                 /\ Flags(r) = last.pre
                 /\ last.cmds = <<>>

\* the element's own leave event, redelivered by the host, reaches its leave
\* event handler
C28_Witness ==
    /\ RoutedPass
    /\ last.op = "redeliver"
    /\ last.msg.EventType = "MouseLeave"
    /\ last.msg.ID = last.elem
    /\ CallNames(last.calls) = <<"DefaultExternalHandler", "HandleMouseLeaveEvent">>

\* a drop event given to an element that listens to clicks and drags only
C28_WitnessUnbound ==
    /\ RoutedPass
    /\ TypeOf(last.msg) = "drop"
    /\ ~els[last.elem].DropEvent.set
    /\ els[last.elem].ClickEvent.set
    /\ last.pre.IsHovered
    /\ Len(last.calls) = 1

\* ---------------------------------------------------------------- properties: click
\* The last pass was a press routed by the default local handler, or a direct
\* call of the click entry point, on an element whose click policy is the default.
C29_Press ==
    /\ LocalPass("Press") \/ last.op = "Click"
    /\ els[last.elem].Click.set
    /\ "OnClick" \notin els[last.elem].Click.on

C29_Clicked == C29_Press /\ (last.op = "Click" \/ InsideOf(els[last.elem], last.msg))

\* C29: under the default click policy a click leaves isSelected=true whatever
\* it was before, and returns one producer, whose event carries the element's
\* id, kind Click and the pointer message, exactly when EmitMessages is on; a
\* press outside the bounds leaves isSelected as it was and returns nothing.
C29_DefaultClick ==
    LET r == els[last.elem]
    IN  /\ C29_Clicked =>
               /\ r.IsSelected
               /\ CountCalls(last.calls, "DefaultClick") = 1
               /\ Len(last.cmds) = (IF r.Click.EmitMessages THEN 1 ELSE 0)
               /\ \A k \in 1..Len(last.cmds) :
                      Invoke(last.cmds[k], r) = ClickEvent(r.ID, "Click", last.msg)
        /\ (C29_Press /\ ~C29_Clicked) =>
               /\ r.IsSelected = last.pre.IsSelected
               /\ last.cmds = <<>>

\* a press inside the bounds of a broadcasting element that is already selected
C29_Witness ==
    /\ C29_Clicked
    /\ last.op = "local"
    /\ last.pre.IsSelected
    /\ els[last.elem].IsSelected
    /\ Len(last.cmds) = 1

\* a press outside the bounds of an element that is not selected
C29_WitnessOutside ==
    /\ C29_Press
    /\ ~C29_Clicked
    /\ ~els[last.elem].IsSelected

C31_Case ==
    /\ last.op \in {"event", "redeliver"}
    /\ TypeOf(last.msg) \in {"click", "hover", "drag"}
    /\ last.msg.EventType \in KindsOfCategory(TypeOf(last.msg))
    /\ EventSlot(els[last.elem], TypeOf(last.msg)).set
    /\ EventSlot(els[last.elem], TypeOf(last.msg)).on = {}

\* C31: with no custom event function, a click, hover or drag event of any
\* kind, from the element itself or from another, leaves every interaction
\* field of the receiver unchanged and returns no command.
C31_NoDefaultReaction ==
    C31_Case =>
        /\ Flags(els[last.elem]) = last.pre
        /\ last.cmds = <<>>
        /\ CallNames(last.calls) = <<"DefaultExternalHandler", EventHandlerName[last.msg.EventType]>>

\* a drag-start event of another element given to an idle listener
C31_Witness ==
    /\ C31_Case
    /\ last.msg.EventType = "DragStart"
    /\ last.msg.ID # last.elem
    /\ ~last.pre.IsDragging
    /\ ~els[last.elem].IsDragging

\* a hover-enter event of another element given to a listener that is not hovered
C31_WitnessEnter ==
    /\ C31_Case
    /\ last.msg.EventType = "MouseEnter"
    /\ last.msg.ID # last.elem
    /\ ~els[last.elem].IsHovered
    /\ els[last.elem].IsSelected

\* ---------------------------------------------------------------- properties: broadcast
\* C32: given the same pointer messages and drop calls, the element with
\* broadcast off has in every state the same interaction fields as the element
\* with broadcast on, and no pass of the element with broadcast off returns a
\* producer: every producer held by the host belongs to the broadcasting one.
C32_BroadcastNeutral ==
    /\ Flags(els[NumElems]) = Flags(els[1])
    /\ last.elem = NumElems => last.cmds = <<>>
    /\ \A k \in 1..Len(pending) : pending[k].owner = 1

\* a move that leaves the bounds during a drag: both elements un-hover and
\* keep dragging, and only the broadcasting one returned producers
C32_Witness ==
    /\ last.op = "local"
    /\ last.elem = NumElems
    /\ last.pre.IsHovered
    /\ last.pre.IsDragging
    /\ ~els[1].IsHovered
    /\ els[1].IsDragging
    /\ els[1].DragOffset # Point(0, 0)
    /\ Len(pending) = 2
    /\ last.cmds = <<>>

\* a release of an acceptable drag on both targets
C32_WitnessDrop ==
    /\ last.op = "DropRelease"
    /\ last.pre.IsBelowDrop
    /\ ~els[1].IsBelowDrop
    /\ Len(pending) = 2

\* ---------------------------------------------------------------- properties: drop event overrides
OnDropEventName ==
    [DropEnter |-> "OnDropEnterEvent", DropHover |-> "OnDropHoverEvent",
     DropLeave |-> "OnDropLeaveEvent", DropRelease |-> "OnDropReleaseEvent",
     DropAccept |-> "OnDropAcceptEvent", DropDeny |-> "OnDropDenyEvent"]

DefaultDropEventName ==
    [DropEnter |-> "DefaultDropEnterEvent", DropHover |-> "DefaultDropHoverEvent",
     DropLeave |-> "DefaultDropLeaveEvent", DropRelease |-> "DefaultDropReleaseEvent",
     DropAccept |-> "DefaultDropAcceptEvent", DropDeny |-> "DefaultDropDenyEvent"]

\* C33: for each of the six kinds of drop event, the entry point runs the
\* custom On<Kind>Event function exactly when that function is set, whatever
\* other custom functions are set, and otherwise runs the default policy of
\* that kind.
C33_OwnOverride ==
    (/\ last.op \in {"event", "redeliver"}
     /\ TypeOf(last.msg) = "drop"
     /\ last.msg.EventType \in DropKinds
     /\ els[last.elem].DropEvent.set) =>
        LET kind == last.msg.EventType
            own == OnDropEventName[kind]
        IN  IF own \in els[last.elem].DropEvent.on
            THEN /\ CallNames(last.calls) =
                        <<"DefaultExternalHandler", EventHandlerName[kind], own>>
                 /\ ~last.panic
            ELSE CallNames(last.calls) =
                     <<"DefaultExternalHandler", EventHandlerName[kind],
                       DefaultDropEventName[kind]>>

\* ---------------------------------------------------------------- properties: event payload
\* C34: the event a returned producer yields is fixed when the producer is
\* returned: a producer the host still holds after a step yields, invoked
\* after the step, the same event (id, acceptable, dragOrigin, dragOffset) it
\* would have yielded before the step.
C34_PayloadIsSnapshot ==
    [][\A j \in 1..Len(pending) :
          (\E k \in 1..Len(pending') : pending'[k] = pending[j]) =>
              Invoke(pending[j], els'[pending[j].owner]) =
                  Invoke(pending[j], els[pending[j].owner])]_vars

\* C34, drag-start instance: the event of a DragStart producer carries
\* dragOffset = (0,0) whenever the host invokes it.
C34_DragStartOffsetZero ==
    \A k \in 1..Len(pending) :
        pending[k].EventType = "DragStart" =>
            Invoke(pending[k], els[pending[k].owner]).DragOffset = Point(0, 0)

\* ---------------------------------------------------------------- properties: drag without click
DragHandlerNames ==
    {"HandleDragStart", "DefaultDragStart", "OnDragStart",
     "HandleDragMove", "DefaultDragMove", "OnDragMove",
     "HandleDragEnd", "DefaultDragEnd", "OnDragEnd"}

\* C35: an element with Drag bound and Click nil never starts a drag through
\* the local dispatcher: after every pointer message isDragging is false and
\* the pass entered no drag-start, drag-move or drag-end handler.
C35_NoDragWithoutClick ==
    \A e \in Elems :
        (els[e].Drag.set /\ ~els[e].Click.set) =>
            /\ ~els[e].IsDragging
            /\ (last.op = "local" /\ last.elem = e) =>
                   \A k \in 1..Len(last.calls) : last.calls[k].h \notin DragHandlerNames

\* C35 case: the draggable element without click handled a press inside its
\* bounds (and was already hovered).
C35_Witness ==
    /\ last.op = "local" /\ last.elem = 1
    /\ els[1].Drag.set /\ ~els[1].Click.set
    /\ last.msg.Action = "Press"
    /\ Point(last.msg.X, last.msg.Y) \in Zone(1)
    /\ els[1].IsHovered

\* C35 case: the same element handled a release after a press inside.
C35_WitnessRelease ==
    /\ last.op = "local" /\ last.elem = 1
    /\ els[1].Drag.set /\ ~els[1].Click.set /\ ~els[1].Hover.set
    /\ last.msg.Action = "Release"
    /\ Called(last.calls, "DefaultLocalHandler")

\* ---------------------------------------------------------------- properties: selection and drag
\* C36: from all flags false and with default policies only, given pointer
\* messages and external messages, an element that is dragging is selected in
\* every reachable state, and no step takes isSelected from true to false.
C36_DraggingImpliesSelected ==
    /\ [](\A e \in Elems : els[e].IsDragging => els[e].IsSelected)
    /\ [][\A e \in Elems : els[e].IsSelected => els'[e].IsSelected]_vars

\* C36 case: a press inside started a drag on a selected element, which then
\* handled an external message while dragging.
C36_Witness ==
    /\ els[1].IsDragging /\ els[1].IsSelected
    /\ last.op = "external" /\ last.elem = 1

\* C36 case: the drag ended by a release and the element stayed selected.
C36_WitnessReleased ==
    /\ last.op = "local" /\ last.elem = 1 /\ last.msg.Action = "Release"
    /\ last.pre.IsDragging /\ ~els[1].IsDragging /\ els[1].IsSelected

\* ---------------------------------------------------------------- properties: local routing and drop
DropFlags(r) ==
    [IsValidDrop |-> r.IsValidDrop, IsAboveDrop |-> r.IsAboveDrop,
     IsBelowDrop |-> r.IsBelowDrop]

DropHandlerNames ==
    UNION {{"HandleDrop" \o k, "DefaultDrop" \o k, "OnDrop" \o k,
            "HandleDrop" \o k \o "Event", "DefaultDrop" \o k \o "Event",
            "OnDrop" \o k \o "Event"} :
               k \in {"Enter", "Hover", "Leave", "Release", "Accept", "Deny"}}

\* C37: a pointer message given to the local dispatcher leaves isValidDrop,
\* isAboveDrop and isBelowDrop as they were and enters no drop handler, also
\* on an element whose Drop capability is bound.
C37_LocalLeavesDrop ==
    last.op = "local" =>
        /\ DropFlags(els[last.elem]) = DropFlags(last.pre)
        /\ \A k \in 1..Len(last.calls) : last.calls[k].h \notin DropHandlerNames

\* C37 case: an element with Drop bound, over which a valid drop is pending,
\* handled a release that ended its own drag.
C37_Witness ==
    /\ last.op = "local" /\ last.elem = 1 /\ last.msg.Action = "Release"
    /\ els[1].Drop.set /\ last.pre.IsValidDrop /\ last.pre.IsDragging
    /\ Called(last.calls, "HandleDragEnd")

\* C37 case: the same element handled a move and a press with a valid drop pending.
C37_WitnessPress ==
    /\ last.op = "local" /\ last.elem = 1 /\ last.msg.Action = "Press"
    /\ els[1].Drop.set /\ last.pre.IsValidDrop /\ last.pre.IsHovered
    /\ Called(last.calls, "HandleClick")

\* ---------------------------------------------------------------- properties: drag end
\* The offset a drag-move to the position of the message would record.
OffsetAt(r, mouseMsg) == Point(mouseMsg.X - r.DragOrigin.X, mouseMsg.Y - r.DragOrigin.Y)

\* C38: a release handled by the default drag-end policy changes only
\* isDragging; dragOrigin and dragOffset keep the values the last drag-start or
\* drag-move left, and the DragEnd event built from the record carries them
\* (the offset of the last move, whatever the release position is).
C38_DragEndKeepsOffset ==
    (last.op = "local" /\ Called(last.calls, "DefaultDragEnd")) =>
        /\ Flags(els[last.elem]) = [last.pre EXCEPT !.IsDragging = FALSE]
        /\ \A k \in 1..Len(last.cmds) :
               last.cmds[k].EventType = "DragEnd" =>
                   LET ev == Invoke(last.cmds[k], els[last.elem])
                   IN  /\ ev.DragOffset = last.pre.DragOffset
                       /\ ev.DragOrigin = last.pre.DragOrigin

\* C38 case: a drag moved away from its origin and was released back on the
\* origin; the DragEnd producer was returned.
C38_Witness ==
    /\ last.op = "local" /\ last.msg.Action = "Release"
    /\ Called(last.calls, "DefaultDragEnd")
    /\ \E k \in 1..Len(last.cmds) : last.cmds[k].EventType = "DragEnd"
    /\ last.pre.DragOffset # Point(0, 0)
    /\ OffsetAt(els[last.elem], last.msg) = Point(0, 0)

\* C38 case: a drag that never moved was released away from its origin.
C38_WitnessNoMove ==
    /\ last.op = "local" /\ last.msg.Action = "Release"
    /\ Called(last.calls, "DefaultDragEnd")
    /\ last.pre.DragOffset = Point(0, 0)
    /\ OffsetAt(els[last.elem], last.msg) # Point(0, 0)

\* ---------------------------------------------------------------- properties: receiver and element record
\* The step is a handling pass of the given kind (every step records its pass).
StepIs(op) == last'.op = op

\* Same record: the record after a pass is the record the handler would leave
\* without its final copy.
FinalCopyChangesNothing ==
    StepIs("local") =>
        LET e == last'.elem
        IN  els'[e] = DefaultLocalHandler_NoCopy(Ctx(e, els[e], els[e], TRUE), last'.msg).x

\* Different records: after the call the element's record equals the invoked
\* record, whose flags are the ones it had before the call except isDragging,
\* which the dispatcher itself writes.
ElementEqualsReceiver ==
    /\ els'[last'.elem] = els'[1]
    /\ Flags(els'[1]) = [Flags(els[1]) EXCEPT !.IsDragging = els'[1].IsDragging]

\* C39 as stated: on the same record the final copy changes nothing; on a
\* different record the element's record equals the invoked record after
\* every call.
C39_CopiesInvokedRecord ==
    [][/\ FinalCopyChangesNothing
       /\ StepIs("shared") => ElementEqualsReceiver]_vars

\* C39, with the fast path set apart: on the same record the final copy
\* changes nothing; on a different record the element's record equals the
\* invoked record after the call when the invoked record has a capability
\* bound, and both records are left as they were when it has none.
C39_CopiesUnlessFastPath ==
    [][/\ FinalCopyChangesNothing
       /\ StepIs("shared") =>
              IF NoCapability(els[1])
              THEN els'[last'.elem] = els[last'.elem] /\ els'[1] = els[1]
              ELSE ElementEqualsReceiver]_vars

\* C39 case: the last element, hovered and selected on its own record, was
\* given a press through the dispatcher of element 1; the click and drag-start
\* policies ran on the element's record and what they wrote is gone.
C39_Witness ==
    /\ last.op = "shared" /\ last.msg.Action = "Press"
    /\ last.pre.IsHovered /\ last.pre.IsSelected
    /\ Called(last.calls, "DefaultClick") /\ Called(last.calls, "DefaultDragStart")
    /\ ~els[last.elem].IsSelected /\ ~els[last.elem].IsHovered
    /\ els[last.elem] = els[1]

\* C39 case: the invoked record has no capability bound and the element's
\* record keeps its own flags.
C39_WitnessFastPath ==
    /\ last.op = "shared" /\ NoCapability(els[1])
    /\ els[last.elem].IsHovered /\ els[last.elem] # els[1]

\* C39 case: a pass on the element's own record changed its flags.
C39_WitnessSame ==
    /\ last.op = "local" /\ last.elem = NumElems
    /\ Flags(els[NumElems]) # last.pre
====
